---- MODULE Spec2Model ----
(***************************************************************************)
(* Face tracking and identity resolution of PUNCHAN0M/facescanning         *)
(* (src/ai/app): FaceBlob, FaceRecognition, FaceTracking, RedisService and *)
(* ServerService, as state machines.                                       *)
(*                                                                         *)
(*   Spec          FaceTracking.tracking_face over a sequence of frames,   *)
(*                 with the ledger (Redis), the log sink and the index.    *)
(*   SpecDegraded  the same session without a store or with an empty one. *)
(*   SpecSummary   FaceBlob.get_match_summary on every bounded histogram.  *)
(*   SpecMatch     FaceRecognition.load_faiss_index / find_best_match on   *)
(*                 every bounded index content and query.                  *)
(*   SpecClassify  FaceTracking._process_tracking_result on every bounded  *)
(*                 batch of summaries and every sequence of ledger and     *)
(*                 persistence outcomes.                                   *)
(*   SpecAssociate FaceTracking._match_or_create_blob and the cleanup on   *)
(*                 detections at chosen places and estimates.              *)
(*   SpecTracker   DetectionTracker (src/ai/detection_tracker.py).         *)
(*   SpecRebuild   VectorRepository (src/base/ai/repository.py): rebuild   *)
(*                 calls and a search, statement by statement.             *)
(*   SpecFrames    WebsocketService._process_websocket_frames: arrivals,   *)
(*                 the loop and the stages of tracking_face.               *)
(*   SpecEmbed     the embedding workers of tracking_face and their cache. *)
(*   SpecLedger    RedisService.exists, command by command, for several    *)
(*                 callers.                                                *)
(*   SpecPredict   tracking_face with the calls of the estimators.         *)
(*   SpecVector    Vector (src/ai/app/core/vector.py): build, update and   *)
(*                 delete of the vectors of the store.                     *)
(*   SpecSingleShot  the single-shot server (src/base/server/app.py): the  *)
(*                 rebuild and upload handlers and vector_db_cache.        *)
(*   SpecConnections  WebsocketService.websocket_connection for several    *)
(*                 connections and the registry of the class.              *)
(*                                                                         *)
(* Abstractions.  Images carry no decision in the code other than a None   *)
(* test that a created blob never meets (face_blob.py:11, 43), so they are *)
(* left out.  Faces stand at the places of Positions, which lie further    *)
(* apart than the gating distance; the estimate of cv2.KalmanFilter is     *)
(* kept to that grid.  Distances are hundredths (0.65 -> 65).              *)
(***************************************************************************)
EXTENDS Integers, Sequences, FiniteSets, TLC

VARIABLES
    cfg,        \* CoreConfig fields read by the tracker
    blobs,      \* FaceTracking.blobs, the live set, in list order
    id_counter, \* FaceTracking.id_counter
    marker,     \* Redis: the session's tracking marker key exists
    keys,       \* Redis: the person keys that exist
    logs,       \* detection logs persisted by the server, per label
    disk,       \* the vector store files of the admin (index.faiss/.pkl)
    recog,      \* FaceRecognition fields: index, index_ivf, id_to_name
    last,       \* what the last operation received and returned
    nframes,    \* number of operations performed (bounds the run)
    tracker,    \* a DetectionTracker: window_size, confirm_threshold, history
    repo,       \* a VectorRepository: index, metadata, and its two files
    procs       \* the calls, workers or connections in progress, each with its position

vars == <<cfg, blobs, id_counter, marker, keys, logs, disk, recog, last, nframes,
          tracker, repo, procs>>

-----------------------------------------------------------------------------
(* Bounds of the model *)

MaxScale == 2       \* blob_life_time = sure_know = sure_unknown in 1..MaxScale in Spec
MaxFrames == 3      \* tracking_face calls in one run of Spec
MaxDet == 2         \* detections in one frame
MaxCount == 3       \* histogram counts drawn in SpecSummary
MaxSureSummary == 3 \* sure_know, sure_unknown range over 0..this in SpecSummary
MaxVectors == 5     \* vectors on disk in SpecMatch
MaxBatch == 3       \* summaries in one batch in SpecClassify
MaxOps == 6         \* calls in one run of SpecAssociate
MaxWindow == 3      \* window_size, confirm_threshold in 1..MaxWindow in SpecTracker
MaxCalls == 5       \* calls in one run of SpecTracker
MaxRebuilds == 2    \* rebuild calls in one run of SpecRebuild
MaxEntries == 2     \* embeddings of one rebuild in SpecRebuild
MaxArrivals == 3    \* frames sent by the client in SpecFrames
MaxTracked == 3     \* tracking_face calls in one run of SpecFrames
MaxFaces == 2       \* faces of the frame in SpecEmbed
MaxCallers == 3     \* concurrent calls of exists in SpecLedger
MaxStored == 4      \* vectors of the store in SpecVector
MaxMembers == 2     \* persons of the organize in SpecSingleShot
MaxFaceImages == 2  \* images of the faces directory in SpecSingleShot
MaxConnections == 2 \* websocket connections in SpecConnections
MaxReceived == 2    \* frames received by one connection in SpecConnections

-----------------------------------------------------------------------------
(* CoreConfig *)

UNKNOWN == "UNKNOWN"
ERROR == "ERROR"
NOT_FOUND == "NOT_FOUND"
SESSION_END == "SESSION_END"
ALREADY_LOGGED == "ALREADY_LOGGED"
FOUND_PERSON == "FOUND_PERSON"
FOUND_UNKNOWN == "FOUND_UNKNOWN"
FOUND_PERSON_AND_UNKNOWN == "FOUND_PERSON_AND_UNKNOWN"
EXISTS == "EXISTS"
SET == "SET"

blob_distance_threshold == 250
recognition_k_neighbors == 5
facenet_threshold == 65

\* Python's None
None == "None"

\* the default of id_to_name.get in find_best_match
PadLabel == "Unknown"

\* person ids enrolled by the admin (folder names under face-images)
Names == {"A", "B"}

Max(a, b) == IF a >= b THEN a ELSE b

-----------------------------------------------------------------------------
(* FaceBlob *)

\* match_history is a dict: a sequence of entries in insertion order
HistNames(h) == {h[i].name : i \in 1..Len(h)}

HistGet(h, name, default) ==
    IF name \in HistNames(h)
    THEN (CHOOSE e \in {h[i] : i \in 1..Len(h)} : e.name = name).count
    ELSE default

\* kalman is statePost, the estimate of the position, on the grid of
\* Positions; it starts at the first position with velocity 0
FaceBlob(id, position, config) ==
    [id |-> id, position |-> position, life |-> config.blob_life_time,
     matched_person_name |-> None, match_history |-> <<>>, kalman |-> position]

HistPut(h, name, count) ==
    IF name \in HistNames(h)
    THEN [i \in 1..Len(h) |-> IF h[i].name = name
                              THEN [name |-> name, count |-> count] ELSE h[i]]
    ELSE Append(h, [name |-> name, count |-> count])

\* update that keeps only the label of the current match
update_overwrite(blob, position, matched_person_name) ==
    [blob EXCEPT !.position = position,
                 !.matched_person_name = matched_person_name,
                 !.match_history = <<[name |-> matched_person_name, count |-> 1]>>]

\* kalman.correct leaves the estimate where it is: a blob is corrected with
\* a measurement within the gating distance of its estimate, and the places
\* of Positions are further apart than that
update(blob, position, matched_person_name) ==
    [blob EXCEPT !.position = position,
                 !.matched_person_name = matched_person_name,
                 !.match_history =
                     HistPut(blob.match_history, matched_person_name,
                             HistGet(blob.match_history, matched_person_name, 0) + 1)]

\* max(items, key=count): the first entry with the highest count
FirstMax(s) ==
    s[CHOOSE i \in 1..Len(s) :
        /\ \A j \in 1..Len(s) : s[j].count <= s[i].count
        /\ \A j \in 1..(i - 1) : s[j].count < s[i].count]

valid_named(h, config) ==
    SelectSeq(h, LAMBDA e : e.name # UNKNOWN /\ e.count >= config.sure_know)

\* get_match_summary with a strict UNKNOWN test
get_match_summary_tie(blob, config) ==
    LET vn == valid_named(blob.match_history, config)
        best == IF vn # <<>> THEN FirstMax(vn) ELSE [name |-> None, count |-> 0]
        unknown_count == HistGet(blob.match_history, UNKNOWN, 0)
    IN  IF unknown_count > Max(config.sure_unknown, best.count * 2) THEN UNKNOWN
        ELSE IF best.name # None /\ unknown_count <= best.count * 2 THEN best.name
        ELSE None

\* the name of the summary; None stands for (None, None)
get_match_summary(blob, config) ==
    LET vn == valid_named(blob.match_history, config)
        best == IF vn # <<>> THEN FirstMax(vn) ELSE [name |-> None, count |-> 0]
        unknown_count == HistGet(blob.match_history, UNKNOWN, 0)
    IN  IF unknown_count >= Max(config.sure_unknown, best.count * 2) THEN UNKNOWN
        ELSE IF best.name # None /\ unknown_count <= best.count * 2 THEN best.name
        ELSE None

-----------------------------------------------------------------------------
(* FaceRecognition *)

\* distances of a query to the stored vectors, in hundredths: below, at and
\* above facenet_threshold
Dists == {40, 65, 90}

\* the distance faiss reports for a missing result (FLT_MAX), with id -1
PadDist == 1000000

\* no store has been written for the admin
NoFile == [present |-> FALSE, ids |-> <<>>, i2n |-> <<>>]

\* None as the value of FaceRecognition.index / index_ivf
NoIndex == [loaded |-> FALSE, ids |-> <<>>]

IndexOf(d) == [loaded |-> TRUE, ids |-> d.ids]

EmptyMap == [i \in {} |-> None]

\* the store Vector.build_vectors writes for the vectors of names, in order:
\* ids 0..n-1 and index_to_docstore_id[i] -> the document of vector i
DiskOf(names) ==
    [present |-> TRUE,
     ids |-> [i \in 1..Len(names) |-> i - 1],
     i2n |-> [i \in 0..(Len(names) - 1) |-> names[i + 1]]]

InitRecog == [index |-> NoIndex, index_ivf |-> NoIndex, id_to_name |-> EmptyMap]

\* load_faiss_index swallows every exception.  The files may be missing or
\* unreadable: FAISS.load_local or faiss.read_index raises and no field of
\* the modelled state has been assigned.  The two later checks (IndexIDMap,
\* InMemoryDocstore) hold of every store Vector writes (vector.py:174-194).
LoadOutcomes == {"ok", "unreadable"}

load_faiss_index(r, d, outcome) ==
    IF ~d.present \/ outcome = "unreadable" THEN r
    ELSE [index |-> IndexOf(d), index_ivf |-> IndexOf(d), id_to_name |-> d.i2n]

\* place of slot i among the slots ordered by distance (ties by slot)
Rank(q, i) ==
    Cardinality({j \in DOMAIN q : q[j] < q[i] \/ (q[j] = q[i] /\ j < i)}) + 1

\* index.search(query, k): k results, nearest first, padded with id -1
search(ix, q, k) ==
    [r \in 1..k |->
        IF r <= Len(ix.ids)
        THEN LET s == CHOOSE i \in 1..Len(ix.ids) : Rank(q, i) = r
             IN  [id |-> ix.ids[s], dist |-> q[s]]
        ELSE [id |-> -1, dist |-> PadDist]]

MapGet(f, key, default) == IF key \in DOMAIN f THEN f[key] ELSE default

matched_names(r, res) ==
    [i \in 1..Len(res) |-> MapGet(r.id_to_name, res[i].id, PadLabel)]

CountOf(names, n) == Cardinality({i \in 1..Len(names) : names[i] = n})

\* Counter(names).most_common(1)[0][0]: the highest count, the first seen on a tie
most_common(names) ==
    LET count == [n \in {names[i] : i \in 1..Len(names)} |-> CountOf(names, n)]
    IN  names[CHOOSE i \in 1..Len(names) :
            /\ \A j \in 1..Len(names) : count[names[j]] <= count[names[i]]
            /\ \A j \in 1..(i - 1) : count[names[j]] < count[names[i]]]

\* find_best_match accepting a distance equal to the threshold
find_best_match_le(r, q) ==
    IF r.index = NoIndex THEN UNKNOWN
    ELSE IF r.index_ivf = NoIndex THEN UNKNOWN
    ELSE LET res == search(r.index_ivf, q, recognition_k_neighbors)
             names == matched_names(r, res)
         IN  IF Len(names) = 0 THEN UNKNOWN
             ELSE IF res[1].dist <= facenet_threshold THEN most_common(names)
             ELSE UNKNOWN

\* find_best_match without the index and distance tests
find_best_match_vote_only(r, q) ==
    LET res == search(r.index_ivf, q, recognition_k_neighbors)
        names == matched_names(r, res)
    IN  IF Len(names) = 0 THEN UNKNOWN ELSE most_common(names)

find_best_match(r, q) ==
    IF r.index = NoIndex THEN UNKNOWN             \* ValueError, caught
    ELSE IF r.index_ivf = NoIndex THEN UNKNOWN    \* AttributeError, caught
    ELSE LET res == search(r.index_ivf, q, recognition_k_neighbors)
             names == matched_names(r, res)
         IN  IF Len(names) = 0 THEN UNKNOWN
             ELSE IF res[1].dist < facenet_threshold THEN most_common(names)
             ELSE UNKNOWN

\* the queries an embedding can be, by its distance to each stored vector
Queries(r) ==
    IF r.index_ivf = NoIndex THEN {<<>>}
    ELSE [1..Len(r.index_ivf.ids) -> Dists]

-----------------------------------------------------------------------------
(* RedisService and ServerService *)

\* the server that owns the session deletes the marker when it ends the
\* session, at any moment; exists is the only reader of the marker
MarkerNow(m) == IF m THEN {TRUE, FALSE} ELSE {FALSE}

\* exists without the test of the person key
exists_always_set(person_id, m, K) ==
    {[status |-> ERROR, keys |-> K]}
    \cup (IF ~m THEN {[status |-> SESSION_END, keys |-> K]}
          ELSE {[status |-> SET, keys |-> K \cup {person_id}]})

\* RedisService.exists: the answers it can give with marker m and keys K
exists(person_id, m, K) ==
    {[status |-> ERROR, keys |-> K]}                  \* a redis call raised
    \cup (IF ~m THEN {[status |-> SESSION_END, keys |-> K]}
          ELSE IF person_id \in K THEN {[status |-> EXISTS, keys |-> K]}
          ELSE {[status |-> SET, keys |-> K \cup {person_id}]})

\* ServerService.create_detection_log: True, False, or an exception of the
\* encoding that precedes its try block
LogOutcomes == {"ok", "fail", "raise"}

create_detection_log(L, person_id, outcome) ==
    IF outcome = "ok" THEN [L EXCEPT ![person_id] = @ + 1] ELSE L

-----------------------------------------------------------------------------
(* FaceTracking._process_tracking_result *)

\* raised instead of returned
RAISE == "RAISE"

\* the table of the docstring of _process_tracking_result
classify_docstring(person_ids, unknown_ids, already_logged_ids) ==
    IF person_ids # <<>> /\ unknown_ids = <<>> THEN FOUND_PERSON
    ELSE IF person_ids = <<>> /\ unknown_ids # <<>> THEN FOUND_UNKNOWN
    ELSE IF person_ids # <<>> /\ unknown_ids # <<>> THEN FOUND_PERSON_AND_UNKNOWN
    ELSE IF person_ids = <<>> /\ unknown_ids = <<>> /\ already_logged_ids # <<>>
         THEN ALREADY_LOGGED
    ELSE ERROR

\* the chain of tests without its last test (case 3)
classify_four(person_ids, unknown_ids, already_logged_ids) ==
    IF person_ids # <<>> /\ unknown_ids = <<>> THEN FOUND_PERSON
    ELSE IF person_ids = <<>> /\ already_logged_ids = <<>> /\ unknown_ids # <<>>
         THEN FOUND_UNKNOWN
    ELSE IF person_ids = <<>> /\ unknown_ids # <<>> /\ already_logged_ids # <<>>
         THEN FOUND_PERSON_AND_UNKNOWN
    ELSE IF person_ids # <<>> /\ unknown_ids # <<>> THEN FOUND_PERSON_AND_UNKNOWN
    ELSE ERROR

\* the chain of tests after the loop
classify(person_ids, unknown_ids, already_logged_ids) ==
    IF person_ids # <<>> /\ unknown_ids = <<>> THEN FOUND_PERSON
    ELSE IF person_ids = <<>> /\ already_logged_ids = <<>> /\ unknown_ids # <<>>
         THEN FOUND_UNKNOWN
    ELSE IF person_ids = <<>> /\ unknown_ids # <<>> /\ already_logged_ids # <<>>
         THEN FOUND_PERSON_AND_UNKNOWN
    ELSE IF person_ids # <<>> /\ unknown_ids # <<>> THEN FOUND_PERSON_AND_UNKNOWN
    ELSE IF person_ids = <<>> /\ unknown_ids = <<>> /\ already_logged_ids # <<>>
         THEN ALREADY_LOGGED
    ELSE ERROR

Call(label, redis, log) == [label |-> label, redis |-> redis, log |-> log]

PtrStart(m, K, L) ==
    [marker |-> m, keys |-> K, logs |-> L, calls |-> <<>>,
     person_ids |-> <<>>, unknown_ids |-> <<>>, already_logged_ids |-> <<>>]

PtrReturn(st, status) ==
    [status |-> status, marker |-> st.marker, keys |-> st.keys, logs |-> st.logs,
     calls |-> st.calls]

\* the loop without its early returns
RECURSIVE ptr_loop_no_abort(_, _, _)
ptr_loop_no_abort(batch, i, st) ==
    IF i > Len(batch)
    THEN {PtrReturn(st, classify(st.person_ids, st.unknown_ids, st.already_logged_ids))}
    ELSE LET person_id == batch[i] IN
      IF person_id = UNKNOWN
      THEN UNION {
             LET st2 == [st EXCEPT
                           !.unknown_ids = Append(@, person_id),
                           !.logs = create_detection_log(@, UNKNOWN, o),
                           !.calls = Append(@, Call(person_id, None, o))]
             IN  IF o = "raise" THEN {PtrReturn(st2, RAISE)}
                 ELSE ptr_loop_no_abort(batch, i + 1, st2)
             : o \in LogOutcomes}
      ELSE UNION { UNION {
             LET st2 == [st EXCEPT !.marker = m2, !.keys = e.keys] IN
             IF e.status = SET
             THEN UNION {
                    LET st3 == [st2 EXCEPT
                                  !.logs = create_detection_log(@, person_id, o),
                                  !.calls = Append(@, Call(person_id, SET, o))]
                    IN  IF o = "raise" THEN {PtrReturn(st3, RAISE)}
                        ELSE ptr_loop_no_abort(batch, i + 1,
                                 [st3 EXCEPT !.person_ids = Append(@, person_id)])
                    : o \in LogOutcomes}
             ELSE LET st3 == [st2 EXCEPT
                                !.calls = Append(@, Call(person_id, e.status, None))]
                  IN  IF e.status = EXISTS
                      THEN ptr_loop_no_abort(batch, i + 1,
                               [st3 EXCEPT !.already_logged_ids = Append(@, person_id)])
                      ELSE ptr_loop_no_abort(batch, i + 1, st3)
             : e \in exists(person_id, m2, st.keys)} : m2 \in MarkerNow(st.marker)}

\* the loop over the summaries from summary i on: the set of results, one for
\* every course the ledger, the marker and the log sink can take
RECURSIVE ptr_loop(_, _, _)
ptr_loop(batch, i, st) ==
    IF i > Len(batch)
    THEN {PtrReturn(st, classify(st.person_ids, st.unknown_ids, st.already_logged_ids))}
    ELSE LET person_id == batch[i] IN
      IF person_id = UNKNOWN
      THEN UNION {
             LET st2 == [st EXCEPT
                           !.unknown_ids = Append(@, person_id),
                           !.logs = create_detection_log(@, UNKNOWN, o),
                           !.calls = Append(@, Call(person_id, None, o))]
             IN  IF o = "raise" THEN {PtrReturn(st2, RAISE)}
                 ELSE ptr_loop(batch, i + 1, st2)
             : o \in LogOutcomes}
      ELSE UNION { UNION {
             LET st2 == [st EXCEPT !.marker = m2, !.keys = e.keys] IN
             IF e.status = SET
             THEN UNION {
                    LET st3 == [st2 EXCEPT
                                  !.logs = create_detection_log(@, person_id, o),
                                  !.calls = Append(@, Call(person_id, SET, o))]
                    IN  IF o = "raise" THEN {PtrReturn(st3, RAISE)}
                        ELSE IF o = "fail" THEN {PtrReturn(st3, ERROR)}
                        ELSE ptr_loop(batch, i + 1,
                                 [st3 EXCEPT !.person_ids = Append(@, person_id)])
                    : o \in LogOutcomes}
             ELSE LET st3 == [st2 EXCEPT
                                !.calls = Append(@, Call(person_id, e.status, None))]
                  IN  IF e.status = EXISTS
                      THEN ptr_loop(batch, i + 1,
                               [st3 EXCEPT !.already_logged_ids = Append(@, person_id)])
                      ELSE IF e.status = SESSION_END
                      THEN {PtrReturn(st3, SESSION_END)}
                      ELSE {PtrReturn(st3, ERROR)}
             : e \in exists(person_id, m2, st.keys)} : m2 \in MarkerNow(st.marker)}

\* tracking_results is the list of person_id of the summaries
_process_tracking_result(tracking_results, m, K, L) ==
    IF tracking_results = <<>>
    THEN {PtrReturn(PtrStart(m, K, L), NOT_FOUND)}
    ELSE ptr_loop(tracking_results, 1, PtrStart(m, K, L))

-----------------------------------------------------------------------------
(* FaceTracking: association, ageing and tracking_face *)

\* centres of face boxes in the 640x480 frame
Positions == {<<100, 100>>, <<400, 100>>}

\* FaceBlob.predict_position: the estimate of the filter; its velocity is 0
\* as long as every measurement is the estimate
predict_position(blob) == blob.kalman

_is_near(pos1, pos2) ==
    LET dx == pos1[1] - pos2[1]
        dy == pos1[2] - pos2[2]
    IN  dx * dx + dy * dy < blob_distance_threshold * blob_distance_threshold

\* what an embedding looks like: an enrolled person or nobody enrolled
Stranger == "stranger"

Embeddings == {"A", Stranger}

NearDist == 40

FarDist == 90

\* the distances of embedding e to the vectors of the loaded index
QueryOf(e, r, d) ==
    [s \in 1..Len(r.index_ivf.ids) |->
        IF MapGet(d.i2n, r.index_ivf.ids[s], None) = e THEN NearDist ELSE FarDist]

\* the last near blob instead of the first
LastNear(bs, position) ==
    IF \E i \in 1..Len(bs) : _is_near(predict_position(bs[i]), position)
    THEN CHOOSE i \in 1..Len(bs) :
            /\ _is_near(predict_position(bs[i]), position)
            /\ \A j \in (i + 1)..Len(bs) : ~_is_near(predict_position(bs[j]), position)
    ELSE 0

\* the first blob, in list order, whose predicted position is near; 0 if none
FirstNear(bs, position) ==
    IF \E i \in 1..Len(bs) : _is_near(predict_position(bs[i]), position)
    THEN CHOOSE i \in 1..Len(bs) :
            /\ _is_near(predict_position(bs[i]), position)
            /\ \A j \in 1..(i - 1) : ~_is_near(predict_position(bs[j]), position)
    ELSE 0

\* st: [blobs, id_counter, matched_ids, labels]
_match_or_create_blob(st, position, matched_person, config) ==
    LET i == FirstNear(st.blobs, position) IN
    IF i # 0
    THEN [st EXCEPT
            !.blobs[i] = update(@, position,
                                IF matched_person # None THEN matched_person
                                ELSE @.matched_person_name),
            !.matched_ids = @ \cup {st.blobs[i].id}]
    ELSE LET new_blob == [FaceBlob(st.id_counter, position, config)
                             EXCEPT !.matched_person_name = matched_person]
         IN  [st EXCEPT !.id_counter = @ + 1,
                        !.blobs = Append(@, new_blob),
                        !.matched_ids = @ \cup {new_blob.id}]

\* the loop when a face without embedding is taken for an unknown face
RECURSIVE associate_unknown(_, _, _, _, _, _)
associate_unknown(dets, i, st, r, d, config) ==
    IF i > Len(dets) THEN st
    ELSE LET matched_person ==
                 IF dets[i].embedding = None THEN UNKNOWN
                 ELSE find_best_match(r, QueryOf(dets[i].embedding, r, d))
             st1 == [st EXCEPT !.labels = Append(@, matched_person)]
         IN  associate_unknown(dets, i + 1,
                               _match_or_create_blob(st1, dets[i].position,
                                                     matched_person, config),
                               r, d, config)

\* the loop of tracking_face over the detections, from detection i on
RECURSIVE associate(_, _, _, _, _, _)
associate(dets, i, st, r, d, config) ==
    IF i > Len(dets) THEN st
    ELSE IF dets[i].embedding = None THEN associate(dets, i + 1, st, r, d, config)
    ELSE LET matched_person == find_best_match(r, QueryOf(dets[i].embedding, r, d))
             st1 == [st EXCEPT !.labels = Append(@, matched_person)]
         IN  associate(dets, i + 1,
                       _match_or_create_blob(st1, dets[i].position, matched_person,
                                             config),
                       r, d, config)

age(blob, matched_ids) ==
    IF blob.id \notin matched_ids THEN [blob EXCEPT !.life = @ - 1] ELSE blob

\* results holds the person_id of each summary, in list order
_decrease_life_and_cleanup(bs, matched_ids, config) ==
    LET aged == [i \in 1..Len(bs) |-> age(bs[i], matched_ids)]
        expired(b) == b.id \notin matched_ids /\ b.life <= 0       \* to_remove
        summarized(b) == expired(b) /\ get_match_summary(b, config) # None
        name(b) == get_match_summary(b, config)
        removed == SelectSeq(aged, summarized)
    IN  [blobs |-> SelectSeq(aged, LAMBDA b : ~summarized(b)),
         results |-> [i \in 1..Len(removed) |-> name(removed[i])]]

\* a detection: the centre of its box and the embedding of its crop (None
\* when image_embedding fails)
Detections == [position : Positions, embedding : Embeddings \cup {None}]

Frames == UNION {[1..n -> Detections] : n \in 0..MaxDet}

\* tracking_face without its except block: an exception leaves the call
tracking_face_no_except(dets, bs, idc, m, K, L, r, d, config) ==
    LET start == [blobs |-> bs, id_counter |-> idc, matched_ids |-> {}, labels |-> <<>>]
        st == IF dets = <<>> THEN start
              ELSE associate(dets, 1, start, r, d, config)
        cleaned == _decrease_life_and_cleanup(st.blobs, st.matched_ids, config)
    IN  {[blobs |-> cleaned.blobs,
            id_counter |-> st.id_counter,
            marker |-> out.marker, keys |-> out.keys, logs |-> out.logs,
            status |-> out.status,
            raised |-> out.status = RAISE,
            labels |-> {st.labels[i] : i \in 1..Len(st.labels)},
            matched_ids |-> st.matched_ids,
            handed |-> cleaned.results,
            discarded |-> <<>>,
            answers |-> {<<out.calls[i].label, out.calls[i].redis>> :
                            i \in 1..Len(out.calls)}]
           : out \in _process_tracking_result(cleaned.results, m, K, L)}

\* tracking_face on a frame with detections dets: the set of results;
\* handed is the list given to _process_tracking_result, discarded the list
\* returned by the _decrease_life_and_cleanup of the except block
tracking_face(dets, bs, idc, m, K, L, r, d, config) ==
    LET start == [blobs |-> bs, id_counter |-> idc, matched_ids |-> {}, labels |-> <<>>]
        st == IF dets = <<>> THEN start
              ELSE associate(dets, 1, start, r, d, config)
        cleaned == _decrease_life_and_cleanup(st.blobs, st.matched_ids, config)
        again == _decrease_life_and_cleanup(cleaned.blobs, {}, config)
    IN  {[blobs |-> IF out.status = RAISE THEN again.blobs ELSE cleaned.blobs,
            id_counter |-> st.id_counter,
            marker |-> out.marker, keys |-> out.keys, logs |-> out.logs,
            status |-> IF out.status = RAISE THEN ERROR ELSE out.status,
            raised |-> out.status = RAISE,
            labels |-> {st.labels[i] : i \in 1..Len(st.labels)},
            matched_ids |-> st.matched_ids,
            handed |-> cleaned.results,
            discarded |-> IF out.status = RAISE THEN again.results ELSE <<>>,
            answers |-> {<<out.calls[i].label, out.calls[i].redis>> :
                            i \in 1..Len(out.calls)}]
           : out \in _process_tracking_result(cleaned.results, m, K, L)}

-----------------------------------------------------------------------------
(* DetectionTracker *)

\* history is a deque(maxlen=window_size); added lists what was added since
\* the history was last cleared and is read by no operation
DetectionTracker(window_size, confirm_threshold) ==
    [window_size |-> window_size, confirm_threshold |-> confirm_threshold,
     history |-> <<>>, added |-> <<>>]

\* add_detection on a history without a maximal length
add_detection_unbounded(t, person_name) ==
    [t EXCEPT !.history = Append(@, person_name),
              !.added = Append(@, person_name)]

\* deque.append: a full deque drops its oldest entry
add_detection(t, person_name) ==
    [t EXCEPT !.history = IF t.window_size = 0 THEN <<>>
                          ELSE IF Len(@) >= t.window_size
                               THEN Append(Tail(@), person_name)
                               ELSE Append(@, person_name),
              !.added = Append(@, person_name)]

reset(t) == [t EXCEPT !.history = <<>>, !.added = <<>>]

\* get_confirmed_person that clears the history only when it is full
get_confirmed_person_keep(t) ==
    LET names == SelectSeq(t.history, LAMBDA n : n # None)
        full == Len(t.history) >= t.window_size
    IN  IF Len(t.history) = 0 THEN [tracker |-> t, result |-> None]
        ELSE IF names = <<>>
             THEN [tracker |-> t, result |-> None]
        ELSE IF CountOf(names, most_common(names)) >= t.confirm_threshold
             THEN [tracker |-> IF full THEN reset(t) ELSE t,
                   result |-> most_common(names)]
        ELSE [tracker |-> IF full THEN reset(t) ELSE t, result |-> None]

\* the tracker after the call and the value returned
get_confirmed_person(t) ==
    LET names == SelectSeq(t.history, LAMBDA n : n # None)
        full == Len(t.history) >= t.window_size
    IN  IF Len(t.history) = 0 THEN [tracker |-> t, result |-> None]
        ELSE IF names = <<>>
             THEN [tracker |-> IF full THEN reset(t) ELSE t, result |-> None]
        ELSE IF CountOf(names, most_common(names)) >= t.confirm_threshold
             THEN [tracker |-> reset(t), result |-> most_common(names)]
        ELSE [tracker |-> IF full THEN reset(t) ELSE t, result |-> None]

-----------------------------------------------------------------------------
(* Values before any operation *)

AllLabels == Names \cup {UNKNOWN, PadLabel}

NoLogs == [l \in AllLabels |-> 0]

DefaultCfg == [blob_life_time |-> 1, sure_know |-> 1, sure_unknown |-> 1]

NoOp == [op |-> "init"]

NoTracker == DetectionTracker(0, 0)

NoRepo == [index |-> <<>>, metadata |-> <<>>, index_file |-> <<>>, metadata_file |-> <<>>]

NoProcs == <<>>

-----------------------------------------------------------------------------
(* SpecSummary: get_match_summary of one blob with any bounded history *)

SummaryLabels == Names \cup {UNKNOWN}

Entries == [name : SummaryLabels, count : 1..MaxCount]

Histories ==
    {h \in UNION {[1..n -> Entries] : n \in 0..Cardinality(SummaryLabels)} :
        \A i, j \in 1..Len(h) : h[i].name = h[j].name => i = j}

InitSummary ==
    /\ cfg \in [blob_life_time : {1}, sure_know : 0..MaxSureSummary,
                sure_unknown : 0..MaxSureSummary]
    /\ blobs \in {<<[FaceBlob("face_0", <<100, 100>>, cfg)
                        EXCEPT !.match_history = h]>> : h \in Histories}
    /\ id_counter = 1
    /\ marker = TRUE
    /\ keys = {}
    /\ logs = NoLogs
    /\ disk = NoFile
    /\ recog = InitRecog
    /\ last = NoOp
    /\ nframes = 0
    /\ tracker = NoTracker
    /\ repo = NoRepo
    /\ procs = NoProcs

GetMatchSummary ==
    /\ last.op = "init"
    /\ last' = [op |-> "get_match_summary", name |-> get_match_summary(blobs[1], cfg)]
    /\ UNCHANGED <<cfg, blobs, id_counter, marker, keys, logs, disk, recog, nframes,
                 tracker, repo, procs>>

NextSummary == GetMatchSummary

SpecSummary == InitSummary /\ [][NextSummary]_vars

-----------------------------------------------------------------------------
(* SpecMatch: load_faiss_index and find_best_match on any bounded store *)

NameSeqs == UNION {[1..n -> Names] : n \in 0..MaxVectors}

InitMatch ==
    /\ cfg = DefaultCfg
    /\ blobs = <<>>
    /\ id_counter = 0
    /\ marker = TRUE
    /\ keys = {}
    /\ logs = NoLogs
    /\ disk \in {NoFile} \cup {DiskOf(names) : names \in NameSeqs}
    /\ recog = InitRecog
    /\ last = NoOp
    /\ nframes = 0
    /\ tracker = NoTracker
    /\ repo = NoRepo
    /\ procs = NoProcs

LoadFaissIndex ==
    /\ last.op = "init"
    /\ \E outcome \in LoadOutcomes :
          recog' = load_faiss_index(recog, disk, outcome)
    /\ last' = [op |-> "load_faiss_index"]
    /\ UNCHANGED <<cfg, blobs, id_counter, marker, keys, logs, disk, nframes,
                 tracker, repo, procs>>

FindBestMatch ==
    /\ last.op # "find_best_match"
    /\ \E q \in Queries(recog) :
          last' = [op |-> "find_best_match", q |-> q, name |-> find_best_match(recog, q)]
    /\ UNCHANGED <<cfg, blobs, id_counter, marker, keys, logs, disk, recog, nframes,
                 tracker, repo, procs>>

NextMatch == LoadFaissIndex \/ FindBestMatch

SpecMatch == InitMatch /\ [][NextMatch]_vars

-----------------------------------------------------------------------------
(* SpecClassify: _process_tracking_result on any bounded batch *)

Batches == UNION {[1..n -> Names \cup {UNKNOWN}] : n \in 0..MaxBatch}

InitClassify ==
    /\ cfg = DefaultCfg
    /\ blobs = <<>>
    /\ id_counter = 0
    /\ marker \in BOOLEAN
    /\ keys \in SUBSET Names
    /\ logs = NoLogs
    /\ disk = NoFile
    /\ recog = InitRecog
    /\ last = NoOp
    /\ nframes = 0
    /\ tracker = NoTracker
    /\ repo = NoRepo
    /\ procs = NoProcs

ProcessTrackingResult ==
    /\ last.op = "init"
    /\ \E batch \in Batches :
         \E out \in _process_tracking_result(batch, marker, keys, logs) :
            /\ marker' = out.marker
            /\ keys' = out.keys
            /\ logs' = out.logs
            /\ last' = [op |-> "_process_tracking_result", batch |-> batch,
                        status |-> out.status, calls |-> out.calls]
    /\ UNCHANGED <<cfg, blobs, id_counter, disk, recog, nframes,
                 tracker, repo, procs>>

NextClassify == ProcessTrackingResult

SpecClassify == InitClassify /\ [][NextClassify]_vars

-----------------------------------------------------------------------------
(* Claims on _process_tracking_result (SpecClassify) *)

Classified == last.op = "_process_tracking_result"

CallIndexes == IF Classified THEN 1..Len(last.calls) ELSE {}

\* the tallies, counted from what the ledger answered and the sink did
FoundTally == Cardinality({i \in CallIndexes :
                  last.calls[i].redis = SET /\ last.calls[i].log = "ok"})

AlreadyTally == Cardinality({i \in CallIndexes : last.calls[i].redis = EXISTS})

UnknownTally == Cardinality({i \in 1..Len(last.batch) : last.batch[i] = UNKNOWN})

\* an abort condition fired at call i
AbortsAt(i) ==
    \/ last.calls[i].label # UNKNOWN /\ last.calls[i].redis \notin {SET, EXISTS}
    \/ last.calls[i].redis = SET /\ last.calls[i].log = "fail"

TallyStatus(found, already, unknown) ==
    CASE found = 0 /\ already = 0 /\ unknown = 0 -> NOT_FOUND
      [] found > 0 /\ unknown = 0 -> FOUND_PERSON
      [] found = 0 /\ already = 0 /\ unknown > 0 -> FOUND_UNKNOWN
      [] unknown > 0 /\ (found > 0 \/ already > 0) -> FOUND_PERSON_AND_UNKNOWN
      [] found = 0 /\ already > 0 /\ unknown = 0 -> ALREADY_LOGGED

C5_SessionEndStopsBatch ==
    Classified =>
        \A i \in CallIndexes :
            last.calls[i].redis = SESSION_END
                => /\ last.status = SESSION_END
                   /\ i = Len(last.calls)
                   /\ last.calls[i].log = None

C5_Witness ==
    /\ Classified
    /\ Len(last.batch) = 3
    /\ Len(last.calls) = 2
    /\ last.calls[1].redis = SET /\ last.calls[1].log = "ok"
    /\ last.calls[2].redis = SESSION_END
    /\ last.status = SESSION_END

\* C6: if the ledger answers ERROR (or anything that is not SET, EXISTS or
\* SESSION_END) for a summary, or persisting the log of a newly-set label
\* returns failure, the batch stops at that summary with status ERROR.
C6_ErrorStopsBatch ==
    Classified =>
        \A i \in CallIndexes :
            (\/ last.calls[i].label # UNKNOWN
                    /\ last.calls[i].redis \notin {SET, EXISTS, SESSION_END}
             \/ last.calls[i].redis = SET /\ last.calls[i].log = "fail")
                => /\ last.status = ERROR
                   /\ i = Len(last.calls)

C6_Witness ==
    /\ Classified
    /\ Len(last.batch) = 3
    /\ Len(last.calls) = 2
    /\ last.calls[1].label = UNKNOWN /\ last.calls[1].log = "ok"
    /\ last.calls[2].redis = SET /\ last.calls[2].log = "fail"
    /\ last.status = ERROR

-----------------------------------------------------------------------------
(* Claims on get_match_summary (SpecSummary) *)

Summarized == last.op = "get_match_summary"

SummaryHist == blobs[1].match_history

\* the named labels seen at least sure_know times
Qualifying ==
    {n \in HistNames(SummaryHist) \ {UNKNOWN} :
        HistGet(SummaryHist, n, 0) >= cfg.sure_know}

BestCount ==
    IF Qualifying = {} THEN 0
    ELSE HistGet(SummaryHist,
                 CHOOSE n \in Qualifying :
                     \A m \in Qualifying :
                         HistGet(SummaryHist, m, 0) <= HistGet(SummaryHist, n, 0),
                 0)

UnknownCount == HistGet(SummaryHist, UNKNOWN, 0)

\* C4: get_match_summary returns UNKNOWN when unknown_count >=
\* max(sure_unknown, 2 * best_count); else a highest-count label among the
\* named labels with count >= sure_know when there is one and unknown_count
\* <= 2 * best_count; else no summary.
C4_SummaryPolicy ==
    Summarized =>
        IF UnknownCount >= Max(cfg.sure_unknown, 2 * BestCount)
        THEN last.name = UNKNOWN
        ELSE IF Qualifying # {} /\ UnknownCount <= 2 * BestCount
        THEN /\ last.name \in Qualifying
             /\ HistGet(SummaryHist, last.name, 0) = BestCount
        ELSE last.name = None

C4_Witness ==
    /\ Summarized
    /\ Cardinality(Qualifying) = 2
    /\ UnknownCount > 0
    /\ UnknownCount < cfg.sure_unknown
    /\ last.name \in Names

-----------------------------------------------------------------------------
(* Claims on find_best_match (SpecMatch) *)

Matched == last.op = "find_best_match"

\* the labels of the vectors the loaded index holds
EnrolledLabels ==
    {disk.i2n[id] : id \in {recog.index_ivf.ids[s] : s \in 1..Len(recog.index_ivf.ids)}
                              \cap DOMAIN disk.i2n}

\* C8: find_best_match returns the sentinel UNKNOWN or the label of a vector
\* enrolled in the index, also when the index holds fewer than k vectors.
C8_UnknownOrEnrolled ==
    Matched => last.name = UNKNOWN \/ last.name \in EnrolledLabels

ResultNames ==
    matched_names(recog, search(recog.index_ivf, last.q, recognition_k_neighbors))

MajorityLabels ==
    LET names == ResultNames
        count == [n \in {names[i] : i \in 1..Len(names)} |-> CountOf(names, n)]
    IN  {n \in DOMAIN count : \A m \in DOMAIN count : count[m] <= count[n]}

\* the smallest distance of the query to a stored vector
NearestDist ==
    IF DOMAIN last.q = {} THEN PadDist
    ELSE CHOOSE d \in {last.q[s] : s \in DOMAIN last.q} :
             \A s \in DOMAIN last.q : d <= last.q[s]

\* C9: with an index loaded, find_best_match returns a majority label of the
\* k results when the distance of the nearest vector is strictly below
\* facenet_threshold, and UNKNOWN otherwise, whatever the distances of the
\* majority label's own vectors are.
C9_NearestDecides ==
    (Matched /\ recog.index # NoIndex /\ recog.index_ivf # NoIndex) =>
        IF NearestDist < facenet_threshold
        THEN last.name \in MajorityLabels
        ELSE last.name = UNKNOWN

\* the majority label is returned although all its own vectors are beyond
\* the threshold: only the nearest vector, of another label, is below it
C9_Witness ==
    /\ Matched
    /\ recog.index # NoIndex /\ recog.index_ivf # NoIndex
    /\ Len(recog.index_ivf.ids) >= recognition_k_neighbors
    /\ last.name = "A"
    /\ \A s \in DOMAIN last.q :
           MapGet(recog.id_to_name, recog.index_ivf.ids[s], PadLabel) = "A"
               => last.q[s] > facenet_threshold

-----------------------------------------------------------------------------
(* Spec: one session of FaceTracking *)

\* the store of the session's admin: three vectors of "A"
SessionDisks == {DiskOf(<<"A", "A", "A">>)}

\* no store, or a store without vectors (Vector.build_empty_vectors)
DegradedDisks == {NoFile, DiskOf(<<>>)}

Scaled(n) == [blob_life_time |-> n, sure_know |-> n, sure_unknown |-> n]

Init ==
    /\ cfg \in {Scaled(n) : n \in 1..MaxScale}
    /\ blobs = <<>>
    /\ id_counter = 0
    /\ marker = TRUE
    /\ keys = {}
    /\ logs = NoLogs
    /\ disk \in SessionDisks
    /\ recog = InitRecog
    /\ last = NoOp
    /\ nframes = 0
    /\ tracker = NoTracker
    /\ repo = NoRepo
    /\ procs = NoProcs

\* websocket_connection loads the index before the first frame
SessionLoad ==
    /\ last.op = "init"
    /\ \E outcome \in LoadOutcomes :
          recog' = load_faiss_index(recog, disk, outcome)
    /\ last' = [op |-> "load_faiss_index"]
    /\ UNCHANGED <<cfg, blobs, id_counter, marker, keys, logs, disk, nframes,
                 tracker, repo, procs>>

TrackingFace ==
    /\ last.op # "websocket_close"
    /\ nframes < MaxFrames
    /\ \E dets \in Frames :
         \E o \in tracking_face(dets, blobs, id_counter, marker, keys, logs,
                                recog, disk, cfg) :
            /\ blobs' = o.blobs
            /\ id_counter' = o.id_counter
            /\ marker' = o.marker
            /\ keys' = o.keys
            /\ logs' = o.logs
            /\ last' = [op |-> "tracking_face", status |-> o.status,
                        raised |-> o.raised, labels |-> o.labels,
                        matched_ids |-> o.matched_ids, answers |-> o.answers,
                        dets |-> dets, handed |-> o.handed,
                        discarded |-> o.discarded]
    /\ nframes' = nframes + 1
    /\ UNCHANGED <<cfg, disk, recog,
                 tracker, repo, procs>>

\* the finally block of websocket_connection, after a disconnect, the
\* timeout of the session or an error: the connection is forgotten, and the
\* FaceTracking of the connection is touched by nothing
WebsocketClose ==
    /\ last.op \notin {"init", "websocket_close"}
    /\ last' = [op |-> "websocket_close"]
    /\ UNCHANGED <<cfg, blobs, id_counter, marker, keys, logs, disk, recog,
                   nframes, tracker, repo, procs>>

Next == SessionLoad \/ TrackingFace \/ WebsocketClose

Spec == Init /\ [][Next]_vars

\* the same session when the admin has no store or an empty one
InitDegraded ==
    /\ cfg \in {Scaled(n) : n \in 1..MaxScale}
    /\ blobs = <<>>
    /\ id_counter = 0
    /\ marker = TRUE
    /\ keys = {}
    /\ logs = NoLogs
    /\ disk \in DegradedDisks
    /\ recog = InitRecog
    /\ last = NoOp
    /\ nframes = 0
    /\ tracker = NoTracker
    /\ repo = NoRepo
    /\ procs = NoProcs

SpecDegraded == InitDegraded /\ [][Next]_vars

-----------------------------------------------------------------------------
(* Claims on tracking_face (Spec, SpecDegraded) *)

Tracked == last.op = "tracking_face"

BlobIds(bs) == {bs[i].id : i \in 1..Len(bs)}

\* C1: a live track (life > 0) that is associated with a detection of the
\* frame has life blob_life_time at the end of the frame, whatever its life
\* was before.
C1_MatchedTrackLifeIsMax ==
    [][(last'.op = "tracking_face" /\ ~last'.raised) =>
          \A i \in 1..Len(blobs) :
              (blobs[i].life > 0 /\ blobs[i].id \in last'.matched_ids)
                  => \E j \in 1..Len(blobs') :
                         /\ blobs'[j].id = blobs[i].id
                         /\ blobs'[j].life = cfg.blob_life_time]_vars

\* C2: after a tracking_face call no track of the live set has life <= 0,
\* also when the expired track has no summary.
C2_NoExpiredTrackLives ==
    (Tracked /\ ~last.raised) => \A i \in 1..Len(blobs) : blobs[i].life > 0

\* C7: over the frames of a session the log of a known label is persisted at
\* most once: once the ledger holds the key of a label, no later summary of
\* that label is answered SET and none persists a log.
C7_LoggedAtMostOnce ==
    [][last'.op = "tracking_face" =>
          \A l \in Names :
              /\ logs'[l] <= 1
              /\ l \in keys => /\ logs'[l] = logs[l]
                              /\ <<l, SET>> \notin last'.answers]_vars

\* a second track of a logged person is summarized: the ledger answers
\* EXISTS and the log stays as it was
C7_Witness ==
    /\ Tracked
    /\ logs["A"] = 1
    /\ <<"A", EXISTS>> \in last.answers
    /\ <<"A", SET>> \notin last.answers

\* no index loaded, or an index without vectors
Degraded ==
    \/ recog.index = NoIndex
    \/ recog.index_ivf = NoIndex
    \/ Len(recog.index_ivf.ids) = 0

\* C10: without a loaded index, or with an index that holds no vectors, every
\* find_best_match of a frame returns UNKNOWN, and the frame still creates
\* tracks (full life, label UNKNOWN), keeps the tracks it matched, ages the
\* others by one and expires those with enough UNKNOWN matches.
C10_DegradedStillTracks ==
    [][(last'.op = "tracking_face" /\ Degraded) =>
          /\ last'.labels \subseteq {UNKNOWN}
          /\ ~last'.raised =>
                /\ last'.labels # {} => last'.matched_ids # {}
                /\ last'.matched_ids \subseteq BlobIds(blobs')
                /\ \A i \in 1..Len(blobs') :
                       blobs'[i].id >= id_counter
                           => /\ blobs'[i].life = cfg.blob_life_time
                              /\ blobs'[i].matched_person_name = UNKNOWN
                /\ \A i \in 1..Len(blobs) :
                       blobs[i].id \notin last'.matched_ids =>
                           IF blobs[i].life > 1
                           THEN \E j \in 1..Len(blobs') :
                                    blobs'[j] = [blobs[i] EXCEPT !.life = @ - 1]
                           ELSE HistGet(blobs[i].match_history, UNKNOWN, 0)
                                        >= cfg.sure_unknown
                                    => /\ blobs[i].id \notin BlobIds(blobs')
                                       /\ <<UNKNOWN, None>> \in last'.answers]_vars

\* a frame without an index: its detection is labelled UNKNOWN and starts a
\* track while an older track expires with the verdict UNKNOWN
C10_Witness ==
    /\ Tracked /\ Degraded
    /\ ~last.raised
    /\ last.labels = {UNKNOWN}
    /\ last.status = FOUND_UNKNOWN
    /\ <<UNKNOWN, None>> \in last.answers
    /\ logs[UNKNOWN] = 1
    /\ \E i \in 1..Len(blobs) :
           blobs[i].id \in last.matched_ids /\ blobs[i].life = cfg.blob_life_time

-----------------------------------------------------------------------------
(* Claims on association and histograms (Spec) *)

\* the number of observations a histogram holds
RECURSIVE HistTotal(_)
HistTotal(h) == IF h = <<>> THEN 0 ELSE h[1].count + HistTotal(Tail(h))

\* C11: within one frame a track is associated with at most one detection,
\* so the histogram of a track grows by at most one observation per frame.
C11_OneDetectionPerTrack ==
    [][last'.op = "tracking_face" =>
          \A i \in 1..Len(blobs) : \A j \in 1..Len(blobs') :
              blobs'[j].id = blobs[i].id
                  => HistTotal(blobs'[j].match_history)
                         <= HistTotal(blobs[i].match_history) + 1]_vars

\* C13: a track created in a frame has a fresh id, life blob_life_time and a
\* histogram that counts the label of the detection that created it.
C13_NewTrackSeeded ==
    [][(last'.op = "tracking_face" /\ ~last'.raised) =>
          \A j \in 1..Len(blobs') :
              blobs'[j].id >= id_counter
                  => /\ blobs'[j].id \notin BlobIds(blobs)
                     /\ blobs'[j].life = cfg.blob_life_time
                     /\ HistGet(blobs'[j].match_history,
                                blobs'[j].matched_person_name, 0) >= 1]_vars

\* C14: as long as a track is live no count of its histogram decreases and
\* no label leaves its histogram.
C14_HistogramMonotone ==
    [][\A i \in 1..Len(blobs) : \A j \in 1..Len(blobs') :
          blobs'[j].id = blobs[i].id
              => \A n \in HistNames(blobs[i].match_history) :
                     /\ n \in HistNames(blobs'[j].match_history)
                     /\ HistGet(blobs'[j].match_history, n, 0)
                            >= HistGet(blobs[i].match_history, n, 0)]_vars

\* a live track whose histogram holds two labels, one of them counted twice
C14_Witness ==
    /\ Tracked
    /\ \E i \in 1..Len(blobs) :
          /\ Cardinality(HistNames(blobs[i].match_history)) = 2
          /\ HistTotal(blobs[i].match_history) = 3

-----------------------------------------------------------------------------
(* SpecAssociate: _match_or_create_blob and _decrease_life_and_cleanup in any
   order, with any estimate of the Kalman filters *)

\* three places on a line: the middle one is within the gating distance of
\* both ends, the ends are not within it of each other
GatePositions == {<<100, 100>>, <<300, 100>>, <<500, 100>>}

\* the places the filters predict: the two ends
GateEstimates == {<<100, 100>>, <<500, 100>>}

\* the labels find_best_match resolves a detection to
GateLabels == {"A"}

\* the blobs as predict_position finds them: blob i predicts preds[i]
WithPredictions(bs, preds) ==
    [i \in 1..Len(bs) |-> [bs[i] EXCEPT !.kalman = preds[i]]]

\* the estimate is drawn anew at each call, so the state keeps the position
Settled(bs) == [i \in 1..Len(bs) |-> [bs[i] EXCEPT !.kalman = bs[i].position]]

InitAssociate ==
    /\ cfg = DefaultCfg
    /\ blobs = <<>>
    /\ id_counter = 0
    /\ marker = TRUE
    /\ keys = {}
    /\ logs = NoLogs
    /\ disk = NoFile
    /\ recog = InitRecog
    /\ last = NoOp
    /\ nframes = 0
    /\ tracker = NoTracker
    /\ repo = NoRepo
    /\ procs = NoProcs

MatchOrCreateBlob ==
    /\ nframes < MaxOps
    /\ \E position \in GatePositions, matched_person \in GateLabels,
          preds \in [1..Len(blobs) -> GateEstimates] :
          LET st == _match_or_create_blob(
                        [blobs |-> WithPredictions(blobs, preds),
                         id_counter |-> id_counter,
                         matched_ids |-> {}, labels |-> <<>>],
                        position, matched_person, cfg)
          IN  /\ blobs' = Settled(st.blobs)
              /\ id_counter' = st.id_counter
              /\ last' = [op |-> "_match_or_create_blob",
                          near |-> {blobs[i].id : i \in
                                      {k \in 1..Len(blobs) :
                                          _is_near(preds[k], position)}},
                          matched_ids |-> st.matched_ids]
    /\ nframes' = nframes + 1
    /\ UNCHANGED <<cfg, marker, keys, logs, disk, recog,
                 tracker, repo, procs>>

DecreaseLifeAndCleanup ==
    /\ nframes < MaxOps
    /\ \E matched_ids \in SUBSET BlobIds(blobs) :
          LET res == _decrease_life_and_cleanup(blobs, matched_ids, cfg)
          IN  /\ blobs' = res.blobs
              /\ last' = [op |-> "_decrease_life_and_cleanup",
                          removed |-> Len(res.results)]
    /\ nframes' = nframes + 1
    /\ UNCHANGED <<cfg, id_counter, marker, keys, logs, disk, recog,
                 tracker, repo, procs>>

NextAssociate == MatchOrCreateBlob \/ DecreaseLifeAndCleanup

SpecAssociate == InitAssociate /\ [][NextAssociate]_vars

-----------------------------------------------------------------------------
(* Claim on the order of association (SpecAssociate) *)

\* the tracks of the live set stand in the order of their creation
CreationOrder(bs) == \A i, j \in 1..Len(bs) : i < j => bs[i].id < bs[j].id

\* C12: a detection within the gating distance of the predicted positions
\* of several live tracks is assigned to the earliest-created of them, and
\* the live set keeps creation order after any creations and removals.
C12_EarliestCreatedWins ==
    [][/\ CreationOrder(blobs')
       /\ (last'.op = "_match_or_create_blob" /\ last'.near # {})
             => /\ last'.matched_ids \subseteq last'.near
                /\ \A m \in last'.matched_ids : \A n \in last'.near : m <= n
                /\ id_counter' = id_counter]_vars

\* after a removal from the live set, a detection is near two tracks and
\* goes to the older one
C12_Witness ==
    /\ last.op = "_match_or_create_blob"
    /\ Cardinality(last.near) = 2
    /\ 0 \notin BlobIds(blobs)
    /\ last.matched_ids = {1}
    /\ last.near = {1, 2}

-----------------------------------------------------------------------------
(* SpecTracker: add_detection, get_confirmed_person and reset of one
   DetectionTracker in any order *)

\* what upload_image adds: a matched person or None
Detected == Names \cup {None}

InitTracker ==
    /\ cfg = DefaultCfg
    /\ blobs = <<>>
    /\ id_counter = 0
    /\ marker = TRUE
    /\ keys = {}
    /\ logs = NoLogs
    /\ disk = NoFile
    /\ recog = InitRecog
    /\ last = NoOp
    /\ nframes = 0
    /\ tracker \in {DetectionTracker(w, c) : w \in 1..MaxWindow, c \in 1..MaxWindow}
    /\ repo = NoRepo
    /\ procs = NoProcs

AddDetection ==
    /\ nframes < MaxCalls
    /\ \E person_name \in Detected :
          /\ tracker' = add_detection(tracker, person_name)
          /\ last' = [op |-> "add_detection", person_name |-> person_name]
    /\ nframes' = nframes + 1
    /\ UNCHANGED <<cfg, blobs, id_counter, marker, keys, logs, disk, recog,
                   repo, procs>>

GetConfirmedPerson ==
    /\ nframes < MaxCalls
    /\ LET out == get_confirmed_person(tracker)
       IN  /\ tracker' = out.tracker
           /\ last' = [op |-> "get_confirmed_person", result |-> out.result,
                       history |-> tracker.history, added |-> tracker.added]
    /\ nframes' = nframes + 1
    /\ UNCHANGED <<cfg, blobs, id_counter, marker, keys, logs, disk, recog,
                   repo, procs>>

Reset ==
    /\ nframes < MaxCalls
    /\ tracker' = reset(tracker)
    /\ last' = [op |-> "reset"]
    /\ nframes' = nframes + 1
    /\ UNCHANGED <<cfg, blobs, id_counter, marker, keys, logs, disk, recog,
                   repo, procs>>

NextTracker == AddDetection \/ GetConfirmedPerson \/ Reset

SpecTracker == InitTracker /\ [][NextTracker]_vars

-----------------------------------------------------------------------------
(* Claims on DetectionTracker (SpecTracker) *)

\* how often label n stands in sequence h
Occurrences(h, n) == Cardinality({i \in 1..Len(h) : h[i] = n})

\* the labels whose count in the history reaches confirm_threshold
Reaching(t) ==
    {n \in Names : Occurrences(t.history, n) >= t.confirm_threshold}

\* C15: when a label's count among the non-null entries of the history has
\* reached confirm_threshold, get_confirmed_person returns such a label (the
\* most frequent one) and leaves the history empty.
C15_ConfirmsAndClears ==
    [][(last'.op = "get_confirmed_person" /\ Reaching(tracker) # {}) =>
          /\ last'.result \in Reaching(tracker)
          /\ \A n \in Names : Occurrences(tracker.history, n)
                                  <= Occurrences(tracker.history, last'.result)
          /\ tracker'.history = <<>>]_vars

\* a label is confirmed on the query that follows its second addition, in a
\* window that is not full
C15_Witness ==
    /\ last.op = "get_confirmed_person"
    /\ last.result = "A"
    /\ tracker.confirm_threshold = 2
    /\ tracker.window_size = 3
    /\ last.history = <<"A", "A">>
    /\ tracker.history = <<>>

\* C16: when the history holds window_size entries and no label reaches
\* confirm_threshold, get_confirmed_person clears the history and returns
\* no confirmation, also when every entry is null.
C16_FullWindowClears ==
    [][(/\ last'.op = "get_confirmed_person"
        /\ Len(tracker.history) = tracker.window_size
        /\ Reaching(tracker) = {}) =>
          /\ last'.result = None
          /\ tracker'.history = <<>>]_vars

\* a full window of null entries has just been cleared
C16_Witness ==
    /\ last.op = "get_confirmed_person"
    /\ last.result = None
    /\ tracker.window_size = 2
    /\ last.history = <<None, None>>
    /\ tracker.history = <<>>

\* the last n entries of sequence h
LastN(h, n) == IF Len(h) <= n THEN h ELSE SubSeq(h, Len(h) - n + 1, Len(h))

\* C17: a label returned as confirmed is non-null and was added at least
\* confirm_threshold times among the last window_size additions made since
\* the history was last cleared.
C17_ConfirmedWasSeen ==
    [][(last'.op = "get_confirmed_person" /\ last'.result # None) =>
          /\ last'.result \in Names
          /\ Occurrences(LastN(tracker.added, tracker.window_size), last'.result)
                 >= tracker.confirm_threshold]_vars

\* a confirmation from a window that had dropped older additions
C17_Witness ==
    /\ last.op = "get_confirmed_person"
    /\ last.result = "A"
    /\ tracker.window_size = 2
    /\ tracker.confirm_threshold = 2
    /\ last.added = <<"A", "B", "A", "A">>

-----------------------------------------------------------------------------
(* Claim on the end of a session (Spec) *)

\* C18: when the session ends, every track still live has been passed
\* through the expiry and summary path, so no live track is left when the
\* resources of the session are released.
C18_TeardownFlushesTracks ==
    last.op = "websocket_close" => blobs = <<>>

-----------------------------------------------------------------------------
(* VectorRepository and its callers: SpecRebuild.  A rebuild streamed by
   _rebuild_stream_response runs in a worker thread, a search runs on the
   event loop, and no lock guards the repository, so the statements of
   reset_and_rebuild, _save, reload and search_nearest interleave.  A person
   is a number; the vector of an entry is written as its person, so that an
   entry is paired with its own label when index[i] = metadata[i]. *)

\* the entries of the organize before any rebuild
OldEntries == <<1, 2>>

\* what a rebuild embeds from the face images: n entries, one of them of a
\* person of the old index
Embedded(n) == [i \in 1..n |-> i + 1]

IdleSearch ==
    [pc |-> "idle", q |-> 0, hit |-> 0, vec |-> 0, result |-> <<>>,
     overlapped |-> FALSE, after_rebuild |-> FALSE]

InitRebuild ==
    /\ cfg = DefaultCfg
    /\ blobs = <<>>
    /\ id_counter = 0
    /\ marker = TRUE
    /\ keys = {}
    /\ logs = NoLogs
    /\ disk = NoFile
    /\ recog = InitRecog
    /\ last = NoOp
    /\ nframes = 0
    /\ tracker = NoTracker
    /\ repo = [index |-> OldEntries, metadata |-> OldEntries,
               index_file |-> OldEntries, metadata_file |-> OldEntries]
    /\ \E n \in 1..MaxEntries :
          procs = [embeddings |-> Embedded(n),
                   rebuild |-> [p \in 1..MaxRebuilds |-> [pc |-> "idle", i |-> 0]],
                   search |-> IdleSearch]

Rebuilding(p) == procs.rebuild[p].pc \notin {"idle", "done"}

Searching == procs.search.pc \notin {"idle", "done"}

\* one statement of rebuild call p: the repository and the position after it
RebuildStep(p, at, repo2, next, i2) ==
    /\ procs.rebuild[p].pc = at
    /\ repo' = repo2
    /\ procs' = [procs EXCEPT
                   !.rebuild[p] = [pc |-> next, i |-> i2],
                   !.search.overlapped = @ \/ Searching]
    /\ last' = [op |-> at]
    /\ UNCHANGED <<cfg, blobs, id_counter, marker, keys, logs, disk, recog,
                   nframes, tracker>>

\* rebuild_vectors_stream up to its call of reset_and_rebuild
StartRebuild(p) ==
    RebuildStep(p, "idle", repo, "reset_index", 0)

\* reset_and_rebuild: self.index = faiss.IndexFlatIP(...)
ResetIndex(p) ==
    RebuildStep(p, "reset_index", [repo EXCEPT !.index = <<>>],
                "reset_metadata", 0)

\* reset_and_rebuild: self.metadata = []
ResetMetadata(p) ==
    RebuildStep(p, "reset_metadata", [repo EXCEPT !.metadata = <<>>], "add", 1)

\* reset_and_rebuild: self.index.add(vector)
IndexAdd(p) ==
    RebuildStep(p, "add",
                [repo EXCEPT !.index = Append(@, procs.embeddings[procs.rebuild[p].i])],
                "append", procs.rebuild[p].i)

\* reset_and_rebuild: self.metadata.append(person_name), and the loop test
MetadataAppend(p) ==
    LET i == procs.rebuild[p].i IN
    RebuildStep(p, "append",
                [repo EXCEPT !.metadata = Append(@, procs.embeddings[i])],
                IF i < Len(procs.embeddings) THEN "add" ELSE "write_index",
                IF i < Len(procs.embeddings) THEN i + 1 ELSE 0)

\* _save: faiss.write_index(self.index, ...)
WriteIndex(p) ==
    RebuildStep(p, "write_index", [repo EXCEPT !.index_file = repo.index],
                "save_metadata", 0)

\* _save: np.save(..., self.metadata)
SaveMetadata(p) ==
    RebuildStep(p, "save_metadata", [repo EXCEPT !.metadata_file = repo.metadata],
                "read_index", 0)

\* a reload that finds no file and creates an empty index
ReadIndexCreated(p) ==
    RebuildStep(p, "read_index", [repo EXCEPT !.index = <<>>], "load_metadata", 0)

\* reload, _load_or_create: self.index = faiss.read_index(...)
ReadIndex(p) ==
    RebuildStep(p, "read_index", [repo EXCEPT !.index = repo.index_file],
                "load_metadata", 0)

\* reload, _load_or_create: self.metadata = np.load(...).tolist()
LoadMetadata(p) ==
    RebuildStep(p, "load_metadata", [repo EXCEPT !.metadata = repo.metadata_file],
                "done", 0)

\* index.search(query, 1) on a flat index: the place of the vector most
\* similar to q, the first of the index when none is q
Nearest(index, q) ==
    IF \E i \in 1..Len(index) : index[i] = q
    THEN CHOOSE i \in 1..Len(index) :
             index[i] = q /\ \A j \in 1..(i - 1) : index[j] # q
    ELSE 1

SearchDone(result) ==
    [procs.search EXCEPT !.pc = "done", !.result = result]

SearchStepTo(search2, op) ==
    /\ procs' = [procs EXCEPT
                   !.search = [search2 EXCEPT
                                 !.overlapped = @ \/ \E p \in 1..MaxRebuilds : Rebuilding(p)]]
    /\ last' = [op |-> op]
    /\ UNCHANGED <<cfg, blobs, id_counter, marker, keys, logs, disk, recog,
                   nframes, tracker, repo>>

\* search_nearest with top_k = 1: the test of self.index.ntotal
SearchNearest ==
    /\ procs.search.pc = "idle"
    /\ \E q \in 1..(MaxEntries + 1) :
          LET begun == [IdleSearch EXCEPT
                          !.q = q,
                          !.after_rebuild =
                              \E p \in 1..MaxRebuilds : procs.rebuild[p].pc = "done"]
          IN  SearchStepTo(IF Len(repo.index) = 0
                           THEN [begun EXCEPT !.pc = "done"]
                           ELSE [begun EXCEPT !.pc = "search"],
                           "search_nearest")

\* search_nearest: self.index.search(query, min(top_k, self.index.ntotal));
\* faiss refuses k = 0
SearchIndex ==
    /\ procs.search.pc = "search"
    /\ SearchStepTo(IF Len(repo.index) = 0
                    THEN SearchDone(RAISE)
                    ELSE LET hit == Nearest(repo.index, procs.search.q)
                         IN  [procs.search EXCEPT !.pc = "collect", !.hit = hit,
                                                  !.vec = repo.index[hit]],
                    "index.search")

\* search_nearest: the loop over the one result
SearchCollect ==
    /\ procs.search.pc = "collect"
    /\ SearchStepTo(LET hit == procs.search.hit IN
                    IF hit <= Len(repo.metadata)
                    THEN SearchDone(<<[vector |-> procs.search.vec,
                                       label |-> repo.metadata[hit]]>>)
                    ELSE SearchDone(<<>>),
                    "collect")

NextRebuild ==
    \/ \E p \in 1..MaxRebuilds :
          \/ StartRebuild(p) \/ ResetIndex(p) \/ ResetMetadata(p)
          \/ IndexAdd(p) \/ MetadataAppend(p)
          \/ WriteIndex(p) \/ SaveMetadata(p)
          \/ ReadIndex(p) \/ LoadMetadata(p)
    \/ SearchNearest \/ SearchIndex \/ SearchCollect

SpecRebuild == InitRebuild /\ [][NextRebuild]_vars

-----------------------------------------------------------------------------
(* Claims on rebuild and search (SpecRebuild) *)

\* what search_nearest(q, 1) returns on an index holding entries
Answer(entries, q) ==
    IF entries = <<>> THEN <<>>
    ELSE LET hit == Nearest(entries, q)
         IN  <<[vector |-> entries[hit], label |-> entries[hit]]>>

Searched == procs.search.pc = "done"

RebuildsBegun == Cardinality({p \in 1..MaxRebuilds : procs.rebuild[p].pc # "idle"})

\* C19: a search that overlaps one rebuild returns what it would return on
\* the entries before the rebuild or on the entries after it: never the
\* result of an empty or partly filled index, never a vector with the label
\* of another entry.
C19_RebuildAtomicForSearch ==
    (Searched /\ procs.search.overlapped /\ RebuildsBegun = 1) =>
        procs.search.result \in {Answer(OldEntries, procs.search.q),
                                 Answer(procs.embeddings, procs.search.q)}

\* C20: a search that starts after a rebuild has returned, with no rebuild
\* running while it runs, returns what the rebuilt entries give: no old
\* entry, each vector with its own label.
C20_SearchAfterRebuild ==
    (Searched /\ procs.search.after_rebuild /\ ~procs.search.overlapped) =>
        procs.search.result = Answer(procs.embeddings, procs.search.q)

-----------------------------------------------------------------------------
(* WebsocketService._process_websocket_frames: SpecFrames.  The client sends
   frames at any time; the loop receives one, processes it, sleeps, and the
   timeout of the session cancels the loop at any await.  A tracking_face
   call is followed through its stages. *)

\* the stages of a tracking_face call, in order; a frame without detections
\* and a call that raised go from "detect" to "age"
Stages == <<"detect", "embed", "associate", "age", "classify", "returned">>

StageAfter(stage) ==
    CASE stage = "detect" -> {"embed", "age"}
      [] stage = "embed" -> {"associate", "age"}
      [] stage = "associate" -> {"age"}
      [] stage = "age" -> {"classify", "returned"}
      [] stage = "classify" -> {"returned"}
      [] OTHER -> {}

\* the loop does not wait for the call (asyncio.create_task in place of await)
await_frame_detached == "sleep"

\* where the loop stands once it has called _process_and_send_frame:
\* "await self._process_and_send_frame(...)"
await_frame == "await"

InitFrames ==
    /\ cfg = DefaultCfg
    /\ blobs = <<>>
    /\ id_counter = 0
    /\ marker = TRUE
    /\ keys = {}
    /\ logs = NoLogs
    /\ disk = NoFile
    /\ recog = InitRecog
    /\ last = NoOp
    /\ nframes = 0
    /\ tracker = NoTracker
    /\ repo = NoRepo
    /\ procs = [pc |-> "receive", socket |-> <<>>, latest |-> 0, calls |-> <<>>]

FramesStep(procs2, op, sent) ==
    /\ procs' = procs2
    /\ last' = [op |-> op]
    /\ nframes' = nframes + sent
    /\ UNCHANGED <<cfg, blobs, id_counter, marker, keys, logs, disk, recog,
                   tracker, repo>>

InCall(c) == c.stage \notin {"returned", "cancelled"}

\* the client sends frame number nframes + 1
ClientSend ==
    /\ nframes < MaxArrivals
    /\ procs.pc # "closed"
    /\ FramesStep([procs EXCEPT
                     !.socket = Append(@, nframes + 1),
                     !.calls = [i \in 1..Len(@) |->
                                  IF InCall(@[i]) THEN [@[i] EXCEPT !.arrival = TRUE]
                                  ELSE @[i]]],
                  "send", 1)

\* data = await websocket.receive_bytes(); _latest_frame[key] = data
ReceiveBytes ==
    /\ procs.pc = "receive"
    /\ procs.socket # <<>>
    /\ FramesStep([procs EXCEPT !.latest = Head(procs.socket),
                                !.socket = Tail(@),
                                !.pc = "process"],
                  "receive_bytes", 0)

\* WebSocketDisconnect or another exception of receive_bytes: break
ReceiveBreak ==
    /\ procs.pc = "receive"
    /\ FramesStep([procs EXCEPT !.pc = "closed"], "break", 0)

\* asyncio.TimeoutError of receive_bytes: pass, and the latest frame, if one
\* was received, is processed again
ReceiveTimeout ==
    /\ procs.pc = "receive"
    /\ FramesStep([procs EXCEPT !.pc = IF procs.latest # 0 THEN "process" ELSE "sleep"],
                  "receive_timeout", 0)

\* _process_and_send_frame up to its call of tracking_face; a frame that
\* does not decode returns without a call
ProcessFrame ==
    /\ procs.pc = "process"
    /\ Len(procs.calls) < MaxTracked
    /\ \E decoded \in BOOLEAN :
          FramesStep(IF decoded
                     THEN [procs EXCEPT
                             !.calls = Append(@, [frame |-> procs.latest,
                                                  stage |-> "detect",
                                                  arrival |-> FALSE]),
                             !.pc = await_frame]
                     ELSE [procs EXCEPT !.pc = "sleep"],
                     "_process_and_send_frame", 0)

\* one stage of a tracking_face call in progress
TrackingStage ==
    \E i \in 1..Len(procs.calls) :
       /\ procs.pc # "closed"
       /\ \E stage \in StageAfter(procs.calls[i].stage) :
             FramesStep([procs EXCEPT !.calls[i].stage = stage], stage, 0)

\* tracking_face has returned: the result is sent, or sending raises and the
\* loop breaks
SendResult ==
    /\ procs.pc = "await"
    /\ procs.calls[Len(procs.calls)].stage = "returned"
    /\ \E sent \in BOOLEAN :
          FramesStep([procs EXCEPT !.pc = IF sent THEN "sleep" ELSE "closed"],
                     "send_text", 0)

\* await asyncio.sleep(0.05)
Sleep ==
    /\ procs.pc = "sleep"
    /\ FramesStep([procs EXCEPT !.pc = "receive"], "sleep", 0)

\* asyncio.wait_for(..., timeout=session_duration) cancels the loop and the
\* call it awaits
SessionTimeout ==
    /\ procs.pc # "closed"
    /\ FramesStep([procs EXCEPT
                     !.pc = "closed",
                     !.calls = [i \in 1..Len(@) |->
                                  IF InCall(@[i]) THEN [@[i] EXCEPT !.stage = "cancelled"]
                                  ELSE @[i]]],
                  "timeout", 0)

NextFrames ==
    \/ ClientSend \/ ReceiveBytes \/ ReceiveBreak \/ ReceiveTimeout
    \/ ProcessFrame \/ TrackingStage \/ SendResult \/ Sleep \/ SessionTimeout

SpecFrames == InitFrames /\ [][NextFrames]_vars

-----------------------------------------------------------------------------
(* Claim on the frame loop (SpecFrames) *)

InFlight == {i \in 1..Len(procs.calls) : InCall(procs.calls[i])}

\* C21: no two frames of one session are processed concurrently: at most one
\* tracking_face call is in progress at any time, and a call starts only
\* when every earlier call has returned, whenever the frames arrive.
C21_OneFrameAtATime ==
    /\ Cardinality(InFlight) <= 1
    /\ \A i \in InFlight : \A j \in 1..(i - 1) : procs.calls[j].stage = "returned"

\* a second call has started after a first one during which a frame arrived
C21_Witness ==
    /\ Len(procs.calls) >= 2
    /\ procs.calls[1].arrival
    /\ procs.calls[1].stage = "returned"
    /\ procs.calls[2].stage = "detect"

-----------------------------------------------------------------------------
(* tracking_face, the embedding stage: SpecEmbed.  executor.map submits
   image_embedding for every face to a pool of max_workers threads; the
   workers share FaceEmbedding.embedding_cache, which no lock guards, so the
   test of the cache and the store into it interleave between workers. *)

max_workers == 4

\* perceptual hashes of face crops; different crops can have the same hash
Hashes == {"h1", "h2"}

\* a face of the frame: the centre of its box, the hash of its crop and what
\* the network gives for the crop (None when it raises)
Faces == [position : Positions, hash : Hashes, own : Embeddings \cup {None}]

NoCache == [h \in Hashes |-> None]

InitEmbed ==
    /\ cfg = DefaultCfg
    /\ blobs = <<>>
    /\ id_counter = 0
    /\ marker = TRUE
    /\ keys = {}
    /\ logs = NoLogs
    /\ disk \in SessionDisks
    /\ recog = load_faiss_index(InitRecog, disk, "ok")
    /\ last = NoOp
    /\ nframes = 0
    /\ tracker = NoTracker
    /\ repo = NoRepo
    /\ \E n \in 1..MaxFaces : \E faces \in [1..n -> Faces] :
          procs = [faces |-> faces,
                   workers |-> [i \in 1..n |-> [pc |-> "queued", result |-> None]],
                   cache |-> NoCache]

EmbedStep(procs2, op) ==
    /\ procs' = procs2
    /\ last' = [op |-> op]
    /\ UNCHANGED <<cfg, blobs, id_counter, marker, keys, logs, disk, recog,
                   nframes, tracker, repo>>

Busy == {i \in 1..Len(procs.workers) : procs.workers[i].pc \in {"lookup", "compute"}}

\* a free thread of the pool takes the next submitted face, in order
WorkerStart(i) ==
    /\ procs.workers[i].pc = "queued"
    /\ \A j \in 1..(i - 1) : procs.workers[j].pc # "queued"
    /\ Cardinality(Busy) < max_workers
    /\ EmbedStep([procs EXCEPT !.workers[i].pc = "lookup"], "submit")

\* image_embedding: if face_hash in self.embedding_cache: return it
CacheLookup(i) ==
    /\ procs.workers[i].pc = "lookup"
    /\ LET cached == procs.cache[procs.faces[i].hash] IN
       EmbedStep(IF cached # None
                 THEN [procs EXCEPT !.workers[i] = [pc |-> "done", result |-> cached]]
                 ELSE [procs EXCEPT !.workers[i].pc = "compute"],
                 "lookup")

\* image_embedding: the network, the store into the cache, the return; an
\* exception returns None and stores nothing
Compute(i) ==
    /\ procs.workers[i].pc = "compute"
    /\ LET face == procs.faces[i] IN
       EmbedStep([procs EXCEPT
                    !.workers[i] = [pc |-> "done", result |-> face.own],
                    !.cache[face.hash] = IF face.own # None THEN face.own ELSE @],
                 "image_embedding")

\* list(executor.map(...)): the results in the order of the faces
embeddings_of(workers) == [i \in 1..Len(workers) |-> workers[i].result]

WithEmbeddings(faces, embeddings) ==
    [i \in 1..Len(faces) |->
        [position |-> faces[i].position, embedding |-> embeddings[i]]]

\* the rest of tracking_face, once every worker has returned
Associate ==
    /\ last.op # "tracking_face"
    /\ \A i \in 1..Len(procs.workers) : procs.workers[i].pc = "done"
    /\ LET embeddings == embeddings_of(procs.workers) IN
       \E o \in tracking_face(WithEmbeddings(procs.faces, embeddings), blobs,
                              id_counter, marker, keys, logs, recog, disk, cfg) :
          /\ blobs' = o.blobs
          /\ id_counter' = o.id_counter
          /\ marker' = o.marker
          /\ keys' = o.keys
          /\ logs' = o.logs
          /\ last' = [op |-> "tracking_face", status |-> o.status,
                      embeddings |-> embeddings]
    /\ nframes' = nframes + 1
    /\ UNCHANGED <<cfg, disk, recog, tracker, repo, procs>>

NextEmbed ==
    \/ \E i \in 1..MaxFaces :
          /\ i <= Len(procs.workers)
          /\ (WorkerStart(i) \/ CacheLookup(i) \/ Compute(i))
    \/ Associate

SpecEmbed == InitEmbed /\ [][NextEmbed]_vars

-----------------------------------------------------------------------------
(* Claim on the embedding stage (SpecEmbed) *)

\* the embeddings when the workers run one after the other, in the order of
\* the faces
RECURSIVE InOrder(_, _, _)
InOrder(faces, i, cache) ==
    IF i > Len(faces) THEN <<>>
    ELSE LET cached == cache[faces[i].hash]
             result == IF cached # None THEN cached ELSE faces[i].own
         IN  <<result>> \o InOrder(faces, i + 1,
                                   [cache EXCEPT ![faces[i].hash] =
                                       IF result # None THEN result ELSE @])

\* C22: association starts when all embeddings of the frame are available
\* and takes the detections in detector order, so that the tracks, the
\* histograms and the status do not depend on the order in which the
\* embedding workers complete: they are those of workers run in order.
C22_CompletionOrderIrrelevant ==
    Tracked =>
        \E o \in tracking_face(WithEmbeddings(procs.faces,
                                              InOrder(procs.faces, 1, NoCache)),
                               <<>>, 0, TRUE, {}, NoLogs, recog, disk, cfg) :
            /\ blobs = o.blobs
            /\ last.status = o.status

-----------------------------------------------------------------------------
(* RedisService.exists, command by command: SpecLedger.  The person key
   holds the admin and the camera, not the session or the connection, and
   the store is shared by every process that serves the camera; exists sends
   EXISTS marker, EXISTS key and SET key as three commands. *)

InitLedger ==
    /\ cfg = DefaultCfg
    /\ blobs = <<>>
    /\ id_counter = 0
    /\ marker = TRUE
    /\ keys \in SUBSET Names
    /\ logs = NoLogs
    /\ disk = NoFile
    /\ recog = InitRecog
    /\ last = NoOp
    /\ nframes = 0
    /\ tracker = NoTracker
    /\ repo = NoRepo
    /\ procs \in [1..MaxCallers -> [pc : {"marker"}, person_id : Names, status : {None}]]

LedgerStep(c, caller, K, m) ==
    /\ procs' = [procs EXCEPT ![c] = caller]
    /\ keys' = K
    /\ marker' = m
    /\ last' = [op |-> procs[c].pc]
    /\ UNCHANGED <<cfg, blobs, id_counter, logs, disk, recog, nframes, tracker, repo>>

Returned(c, status) == [procs[c] EXCEPT !.pc = "returned", !.status = status]

\* if not redis_client.exists(marker_key): return SESSION_END
MarkerTest(c) ==
    /\ procs[c].pc = "marker"
    /\ LedgerStep(c, IF marker THEN [procs[c] EXCEPT !.pc = "key"]
                     ELSE Returned(c, SESSION_END),
                  keys, marker)

\* if redis_client.exists(key): return EXISTS
KeyTest(c) ==
    /\ procs[c].pc = "key"
    /\ LedgerStep(c, IF procs[c].person_id \in keys THEN Returned(c, EXISTS)
                     ELSE [procs[c] EXCEPT !.pc = "set"],
                  keys, marker)

\* redis_client.set(key, "1"); return SET
KeySet(c) ==
    /\ procs[c].pc = "set"
    /\ LedgerStep(c, Returned(c, SET), keys \cup {procs[c].person_id}, marker)

\* a command raises: return ERROR
CommandRaises(c) ==
    /\ procs[c].pc # "returned"
    /\ LedgerStep(c, Returned(c, ERROR), keys, marker)

\* the server that owns the session deletes the marker
MarkerDeleted ==
    /\ marker
    /\ marker' = FALSE
    /\ last' = [op |-> "delete"]
    /\ UNCHANGED <<cfg, blobs, id_counter, keys, logs, disk, recog, nframes,
                   tracker, repo, procs>>

NextLedger ==
    \/ \E c \in 1..MaxCallers :
          MarkerTest(c) \/ KeyTest(c) \/ KeySet(c) \/ CommandRaises(c)
    \/ MarkerDeleted

SpecLedger == InitLedger /\ [][NextLedger]_vars

-----------------------------------------------------------------------------
(* Claim on the ledger (SpecLedger) *)

Answered(person_id, status) ==
    {c \in 1..MaxCallers : /\ procs[c].pc = "returned"
                           /\ procs[c].person_id = person_id
                           /\ procs[c].status = status}

\* C23: check-and-mark is race-free: while the session marker exists, of
\* the concurrent exists calls with one person key at most one is answered
\* SET (the others EXISTS), however their commands interleave.
C23_AtMostOneSet ==
    marker => \A person_id \in Names : Cardinality(Answered(person_id, SET)) <= 1

-----------------------------------------------------------------------------
(* Claims on failed embeddings and failed detection (Spec) *)

EmbeddedDets(dets) == SelectSeq(dets, LAMBDA det : det.embedding # None)

\* C24: a detection whose embedding is None creates no track and updates
\* none, and the rest of the frame is processed as if that detection were
\* absent: the call leaves the tracks, the counter, the ledger, the logs and
\* the status it would leave on the frame without the failed detections.
C24_FailedEmbeddingSkipped ==
    [][last'.op = "tracking_face" =>
         /\ \E o \in tracking_face(EmbeddedDets(last'.dets), blobs, id_counter,
                                   marker, keys, logs, recog, disk, cfg) :
               /\ blobs' = o.blobs
               /\ id_counter' = o.id_counter
               /\ keys' = o.keys
               /\ logs' = o.logs
               /\ last'.status = o.status
               /\ last'.matched_ids = o.matched_ids
         /\ EmbeddedDets(last'.dets) = <<>> =>
               /\ last'.matched_ids = {}
               /\ id_counter' = id_counter
               /\ BlobIds(blobs') \subseteq BlobIds(blobs)]_vars

\* a frame with a failed detection at the place of a live track, which is
\* left unmatched, and with another detection that is associated
C24_Witness ==
    /\ Tracked
    /\ last.matched_ids # {}
    /\ \E i \in 1..Len(last.dets) : \E j \in 1..Len(blobs) :
          /\ last.dets[i].embedding = None
          /\ blobs[j].position = last.dets[i].position
          /\ blobs[j].id \notin last.matched_ids

Statuses ==
    {NOT_FOUND, FOUND_PERSON, FOUND_UNKNOWN, FOUND_PERSON_AND_UNKNOWN,
     ALREADY_LOGGED, SESSION_END, ERROR}

\* C25: on a frame in which detection fails or finds no face, every live
\* track's life decreases by exactly one, the tracks that reach 0 or less
\* are finalized (they leave the live set), no track is created, and the
\* call returns a status.
C25_NoDetectionAgesOnce ==
    [][(last'.op = "tracking_face" /\ last'.dets = <<>>) =>
         /\ id_counter' = id_counter
         /\ BlobIds(blobs') \subseteq BlobIds(blobs)
         /\ \A i \in 1..Len(blobs) : \A j \in 1..Len(blobs') :
               blobs'[j].id = blobs[i].id =>
                   /\ blobs'[j].life = blobs[i].life - 1
                   /\ blobs'[j].life > 0
         /\ last'.status \in Statuses]_vars

-----------------------------------------------------------------------------
(* Claim on the status of a frame (Spec) *)

\* C26: every tracking_face call returns one status of NOT_FOUND,
\* FOUND_PERSON, FOUND_UNKNOWN, FOUND_PERSON_AND_UNKNOWN, ALREADY_LOGGED,
\* SESSION_END, ERROR, also when an exception occurred inside the call.
C26_StatusOfTheSet ==
    Tracked => last.status \in Statuses

\* a call inside which an exception occurred
C26_Witness ==
    Tracked /\ last.raised /\ last.status = ERROR

-----------------------------------------------------------------------------
(* Claim on the fall-through of _process_tracking_result (SpecClassify) *)

NoAbort ==
    /\ Classified
    /\ last.status # RAISE
    /\ \A i \in CallIndexes : ~AbortsAt(i)

\* C27: the final return of _process_tracking_result (ERROR, "format does
\* not match known criteria") is unreachable: on every non-empty batch that
\* triggers no abort at least one of the tallies found, already, unknown is
\* positive and one of the five tests returns, so the status is not ERROR.
C27_FallThroughUnreachable ==
    (NoAbort /\ last.batch # <<>>) =>
        /\ FoundTally + AlreadyTally + UnknownTally > 0
        /\ last.status \in {FOUND_PERSON, FOUND_UNKNOWN, FOUND_PERSON_AND_UNKNOWN,
                            ALREADY_LOGGED}

\* a batch of already logged persons only, answered by the last test
C27_Witness ==
    /\ NoAbort
    /\ last.batch # <<>>
    /\ FoundTally = 0
    /\ UnknownTally = 0
    /\ AlreadyTally = Len(last.batch)
    /\ last.status = ALREADY_LOGGED

-----------------------------------------------------------------------------
(* Claim on the cached index after a rebuild (SpecRebuild) *)

\* search_nearest(q, 1) run without interruption on an index and its labels
search_nearest(index, metadata, q) ==
    IF Len(index) = 0 THEN <<>>
    ELSE LET hit == Nearest(index, q)
         IN  IF hit <= Len(metadata)
             THEN <<[vector |-> index[hit], label |-> metadata[hit]]>>
             ELSE <<>>

RebuildReturned == \E p \in 1..MaxRebuilds : procs.rebuild[p].pc = "done"

Quiet == \A p \in 1..MaxRebuilds : ~Rebuilding(p)

\* C28: once a rebuild has returned and no rebuild is running, the index and
\* the labels held in memory for the organize are the ones saved on disk,
\* and a search that starts then and meets no rebuild returns the answer of
\* the saved index and labels.
C28_CacheIsDisk ==
    /\ []((RebuildReturned /\ Quiet) =>
            /\ repo.index = repo.index_file
            /\ repo.metadata = repo.metadata_file)
    /\ [][(/\ ~Searched
           /\ Searched'
           /\ procs'.search.after_rebuild
           /\ ~procs'.search.overlapped) =>
              procs'.search.result =
                  search_nearest(repo.index_file, repo.metadata_file,
                                 procs'.search.q)]_vars

\* a search answered from the rebuilt index after a rebuild has returned
C28_Witness ==
    /\ Searched
    /\ procs.search.after_rebuild
    /\ ~procs.search.overlapped
    /\ repo.index_file = procs.embeddings
    /\ procs.search.result # <<>>
    /\ procs.search.result # Answer(OldEntries, procs.search.q)

-----------------------------------------------------------------------------
(* tracking_face with the calls of the estimators followed: SpecPredict.
   kalman.predict is called by predict_position, which _match_or_create_blob
   calls for each blob it tests; its result is drawn from GateEstimates, or
   it raises.  Every face resolves to a label of GateLabels. *)

PredictRaises == <<-1, -1>>

PredictOutcomes == GateEstimates \cup {PredictRaises}

\* predict_position falling back to the origin
predict_position_origin(blob, outcome) ==
    IF outcome = PredictRaises THEN <<0, 0>> ELSE outcome

\* FaceBlob.predict_position when kalman.predict gives outcome
predict_position_or(blob, outcome) ==
    IF outcome = PredictRaises THEN blob.position ELSE outcome

\* the outcome of kalman.predict for blob in this frame: a blob created in
\* the frame predicts the place it was created at
OutcomeOf(blob, outcomes) ==
    IF blob.id \in DOMAIN outcomes THEN outcomes[blob.id] ELSE blob.position

\* what the loop of _match_or_create_blob sees of blob k
View(blob, outcomes) ==
    [id |-> blob.id,
     raised |-> OutcomeOf(blob, outcomes) = PredictRaises,
     observed |-> blob.position,
     used |-> predict_position_or(blob, OutcomeOf(blob, outcomes))]

\* _match_or_create_blob on st: [blobs, id_counter, matched_ids, scans]
match_or_create(st, position, matched_person, outcomes, config) ==
    LET bs == st.blobs
        near(k) == _is_near(View(bs[k], outcomes).used, position)
        hit == IF \E k \in 1..Len(bs) : near(k)
               THEN CHOOSE k \in 1..Len(bs) : near(k) /\ \A j \in 1..(k - 1) : ~near(j)
               ELSE 0
        tested == IF hit = 0 THEN Len(bs) ELSE hit
        views == [k \in 1..tested |-> View(bs[k], outcomes)]
        new_blob == [FaceBlob(st.id_counter, position, config)
                        EXCEPT !.matched_person_name = matched_person]
    IN  IF hit # 0
        THEN [st EXCEPT
                !.blobs[hit] = update(@, position, matched_person),
                !.matched_ids = @ \cup {bs[hit].id},
                !.scans = Append(@, [position |-> position, views |-> views,
                                     updated |-> {bs[hit].id}])]
        ELSE [st EXCEPT
                !.id_counter = @ + 1,
                !.blobs = Append(@, new_blob),
                !.matched_ids = @ \cup {new_blob.id},
                !.scans = Append(@, [position |-> position, views |-> views,
                                     updated |-> {}])]

\* the loop of tracking_face over the positions of the faces
RECURSIVE associate_all(_, _, _, _, _, _)
associate_all(positions, i, st, matched_person, outcomes, config) ==
    IF i > Len(positions) THEN st
    ELSE associate_all(positions, i + 1,
                       match_or_create(st, positions[i], matched_person,
                                       outcomes, config),
                       matched_person, outcomes, config)

FacePositions == UNION {[1..n -> GatePositions] : n \in 0..MaxDet}

InitPredict ==
    /\ cfg = DefaultCfg
    /\ blobs = <<>>
    /\ id_counter = 0
    /\ marker = TRUE
    /\ keys = {}
    /\ logs = NoLogs
    /\ disk = NoFile
    /\ recog = InitRecog
    /\ last = NoOp
    /\ nframes = 0
    /\ tracker = NoTracker
    /\ repo = NoRepo
    /\ procs = NoProcs

TrackingFacePredict ==
    /\ nframes < MaxFrames
    /\ \E positions \in FacePositions, matched_person \in GateLabels,
          outcomes \in [BlobIds(blobs) -> PredictOutcomes] :
          LET start == [blobs |-> blobs, id_counter |-> id_counter,
                        matched_ids |-> {}, scans |-> <<>>]
              st == IF positions = <<>> THEN start
                    ELSE associate_all(positions, 1, start, matched_person,
                                       outcomes, cfg)
              cleaned == _decrease_life_and_cleanup(st.blobs, st.matched_ids, cfg)
              again == _decrease_life_and_cleanup(cleaned.blobs, {}, cfg)
          IN  \E out \in _process_tracking_result(cleaned.results, marker, keys, logs) :
                 /\ blobs' = IF out.status = RAISE THEN again.blobs ELSE cleaned.blobs
                 /\ id_counter' = st.id_counter
                 /\ marker' = out.marker
                 /\ keys' = out.keys
                 /\ logs' = out.logs
                 /\ last' = [op |-> "tracking_face",
                             status |-> IF out.status = RAISE THEN ERROR ELSE out.status,
                             positions |-> positions, scans |-> st.scans,
                             matched_ids |-> st.matched_ids]
    /\ nframes' = nframes + 1
    /\ UNCHANGED <<cfg, disk, recog, tracker, repo, procs>>

NextPredict == TrackingFacePredict

SpecPredict == InitPredict /\ [][NextPredict]_vars

-----------------------------------------------------------------------------
(* Claims on the estimators (SpecPredict) *)

\* the calls of predict_position of a frame: detection i, blob k
ViewIndexes(scans) ==
    UNION {{<<i, k>> : k \in 1..Len(scans[i].views)} : i \in 1..Len(scans)}

\* the calls in which kalman.predict raised
RaisedViews(scans) ==
    {v \in ViewIndexes(scans) : scans[v[1]].views[v[2]].raised}

\* C29: when the predict step of a track fails, the association tests the
\* track at its last observed position, tracking_face returns a status, and
\* every detection of the frame is still associated: each one updates the
\* first track that is near by the positions used, or creates a track.
C29_PredictFallback ==
    [][last'.op = "tracking_face" =>
         /\ \A v \in RaisedViews(last'.scans) :
               last'.scans[v[1]].views[v[2]].used
                   = last'.scans[v[1]].views[v[2]].observed
         /\ RaisedViews(last'.scans) # {} =>
               /\ last'.status \in Statuses
               /\ Len(last'.scans) = Len(last'.positions)
               /\ \A i \in 1..Len(last'.scans) :
                     LET s == last'.scans[i]
                         n == Len(s.views)
                     IN  /\ \A k \in 1..(n - 1) : ~_is_near(s.views[k].used, s.position)
                         /\ s.updated # {} =>
                               /\ s.updated = {s.views[n].id}
                               /\ _is_near(s.views[n].used, s.position)
                         /\ s.updated = {} =>
                               \A k \in 1..n : ~_is_near(s.views[k].used, s.position)]_vars

\* a frame in which the predict step of a track fails, the track is taken
\* at its last observed position, and another detection creates a track
C29_Witness ==
    /\ last.op = "tracking_face"
    /\ Len(last.scans) = 2
    /\ last.scans[1].updated # {}
    /\ last.scans[1].views[Len(last.scans[1].views)].raised
    /\ last.scans[2].updated = {}

\* the number of predict_position calls on track id in the frame
Predicts(scans, id) ==
    Cardinality({v \in ViewIndexes(scans) : scans[v[1]].views[v[2]].id = id})

\* C30: the estimator of each live track runs its predict step exactly once
\* in each processed frame, whatever the number of detections and the place
\* of the track in the live set, also in a frame without detections, and its
\* correct step only in a frame in which a detection is associated with it.
C30_PredictOncePerFrame ==
    [][last'.op = "tracking_face" =>
         \A id \in BlobIds(blobs) :
            /\ Predicts(last'.scans, id) = 1
            /\ \A i \in 1..Len(last'.scans) :
                  id \in last'.scans[i].updated => id \in last'.matched_ids]_vars

-----------------------------------------------------------------------------
(* Claims on the summary of a track without a qualifying label (SpecSummary) *)

\* the highest count of a named label of the histogram, qualifying or not
HighestNamed ==
    LET named == {HistGet(SummaryHist, n, 0) : n \in HistNames(SummaryHist) \ {UNKNOWN}}
    IN  IF named = {} THEN 0
        ELSE CHOOSE c \in named : \A d \in named : d <= c

\* C31: when every named label of the track has a count below sure_know,
\* get_match_summary returns UNKNOWN only if unknown_count >=
\* max(sure_unknown, 2 * highest named count).
C31_UnknownNeedsTwiceNamed ==
    (Summarized /\ Qualifying = {} /\ last.name = UNKNOWN) =>
        UnknownCount >= Max(cfg.sure_unknown, 2 * HighestNamed)

\* C32: with sure_unknown <= 2 * sure_know, get_match_summary returns no
\* summary exactly when no named label has count >= sure_know and
\* unknown_count < sure_unknown; when a qualifying label exists the summary
\* is UNKNOWN if unknown_count >= 2 * best_count, the tie included, and a
\* highest-count qualifying label otherwise.
C32_SummaryUnderDefaults ==
    (Summarized /\ cfg.sure_unknown <= 2 * cfg.sure_know) =>
        /\ (last.name = None) <=>
               (Qualifying = {} /\ UnknownCount < cfg.sure_unknown)
        /\ Qualifying # {} =>
               IF UnknownCount >= 2 * BestCount
               THEN last.name = UNKNOWN
               ELSE /\ last.name \in Qualifying
                    /\ HistGet(SummaryHist, last.name, 0) = BestCount

\* the exact tie: unknown_count is twice the count of the best label
C32_Witness ==
    /\ Summarized
    /\ cfg.sure_unknown <= 2 * cfg.sure_know
    /\ cfg.sure_know > 0
    /\ Qualifying # {}
    /\ UnknownCount = 2 * BestCount
    /\ last.name = UNKNOWN

-----------------------------------------------------------------------------
(* Claims on the exception path of tracking_face (Spec) *)

\* C33: in every tracking_face call the life of a live track decreases by
\* at most one, and the life of a track matched in the frame does not
\* decrease, also when classification or the log sink raises and the call
\* answers ERROR.
C33_AgedAtMostOnce ==
    [][(last'.op = "tracking_face") =>
         \A i \in 1..Len(blobs) : \A j \in 1..Len(blobs') :
            blobs'[j].id = blobs[i].id =>
                /\ blobs'[j].life >= blobs[i].life - 1
                /\ blobs[i].id \in last'.matched_ids =>
                       blobs'[j].life >= blobs[i].life]_vars

\* C34: every summary produced when a track is removed in a tracking_face
\* call is in the list handed to _process_tracking_result in that call, on
\* the exception path too: no summary of a removed track is left out.
C34_SummariesAreClassified ==
    Tracked => last.discarded = <<>>

-----------------------------------------------------------------------------
(* Claims on the ledger and the log sink of a session (Spec) *)

\* C35: a known label is marked in the ledger only if a detection log of it
\* has been persisted; a label whose log failed does not stay marked.
C35_MarkedOnlyIfLogged ==
    \A person_id \in keys : logs[person_id] > 0

-----------------------------------------------------------------------------
(* Claim on the log sink after the end of the session (SpecClassify) *)

\* C36: once the session marker is absent from the ledger, no detection log
\* is persisted, for a known label or for UNKNOWN, also for an UNKNOWN
\* summary that stands before a known label in a batch answered SESSION_END.
C36_NoLogAfterSessionEnd ==
    [][~marker => logs' = logs]_vars

-----------------------------------------------------------------------------
(* Vector (vector.py): SpecVector.  The store of an admin is the FAISS
   index (the vectors and their ids, in the order they were added), the map
   index_to_docstore_id and the docstore.  A vector is written as the
   document of the image it was extracted from; a document stands for its
   uuid, since no two documents of a docstore have the same name and image
   when they are added.  The folders of face images are written by the
   upload of images, outside Vector. *)

Images == {"i1", "i2"}

Document(name, image) == [name |-> name, image |-> image]

\* no store has been saved at vector_path
NoStore ==
    [present |-> FALSE, vectors |-> <<>>, ids |-> <<>>,
     index_to_docstore_id |-> EmptyMap, docstore |-> {}]

\* os.listdir of a person folder
listdir(images) == SelectSeq(<<"i1", "i2">>, LAMBDA image : image \in images)

\* _extract_face_vectors_single: one vector and one document per image
_extract_face_vectors_single(person_id, folders) ==
    LET files == listdir(folders[person_id])
    IN  [k \in 1..Len(files) |-> Document(person_id, files[k])]

\* build_vectors over the person folders in the order os.listdir gives
build_vectors(store, folders, order) ==
    LET docs == _extract_face_vectors_single(order[1], folders)
                \o _extract_face_vectors_single(order[2], folders)
    IN  IF docs = <<>> THEN store
        ELSE [present |-> TRUE,
              vectors |-> docs,
              ids |-> [k \in 1..Len(docs) |-> k - 1],
              index_to_docstore_id |-> [i \in 0..(Len(docs) - 1) |-> docs[i + 1]],
              docstore |-> {docs[k] : k \in 1..Len(docs)}]

\* the documents update_person_vectors adds: those whose name and image are
\* not in the docstore
filtered_docs(store, person_id, folders) ==
    SelectSeq(_extract_face_vectors_single(person_id, folders),
              LAMBDA doc : doc \notin store.docstore)

\* update_person_vectors: the new ids start at index.ntotal
update_person_vectors(store, person_id, folders) ==
    LET new == filtered_docs(store, person_id, folders)
        current_count == Len(store.vectors)
        new_ids == current_count..(current_count + Len(new) - 1)
    IN  IF ~store.present \/ new = <<>> THEN store
        ELSE [present |-> TRUE,
              vectors |-> store.vectors \o new,
              ids |-> store.ids \o [k \in 1..Len(new) |-> current_count + k - 1],
              index_to_docstore_id |->
                  [i \in DOMAIN store.index_to_docstore_id \cup new_ids |->
                      IF i \in new_ids THEN new[i - current_count + 1]
                      ELSE store.index_to_docstore_id[i]],
              docstore |-> store.docstore \cup {new[k] : k \in 1..Len(new)}]

\* index.remove_ids: what is left of s, whose places carry ids
RECURSIVE Kept(_, _, _)
Kept(s, ids, to_delete) ==
    IF s = <<>> THEN <<>>
    ELSE IF Head(ids) \in to_delete THEN Kept(Tail(s), Tail(ids), to_delete)
    ELSE <<Head(s)>> \o Kept(Tail(s), Tail(ids), to_delete)

\* delete_person_vectors: remove_ids of the ids mapped to a document of the
\* person, and the map and the docstore of the remaining ids
delete_person_vectors(store, person_id) ==
    LET indices_to_delete ==
            {idx \in DOMAIN store.index_to_docstore_id :
                store.index_to_docstore_id[idx].name = person_id}
        remaining == DOMAIN store.index_to_docstore_id \ indices_to_delete
    IN  IF ~store.present \/ indices_to_delete = {} THEN store
        ELSE [present |-> TRUE,
              vectors |-> Kept(store.vectors, store.ids, indices_to_delete),
              ids |-> Kept(store.ids, store.ids, indices_to_delete),
              index_to_docstore_id |->
                  [i \in remaining |-> store.index_to_docstore_id[i]],
              docstore |-> {store.index_to_docstore_id[i] : i \in remaining}]

InitVector ==
    /\ cfg = DefaultCfg
    /\ blobs = <<>>
    /\ id_counter = 0
    /\ marker = TRUE
    /\ keys = {}
    /\ logs = NoLogs
    /\ disk = NoStore
    /\ recog = InitRecog
    /\ last = NoOp
    /\ nframes = 0
    /\ tracker = NoTracker
    /\ repo = NoRepo
    /\ procs \in [folders : [Names -> SUBSET Images]]

VectorStep(store, op, person_id) ==
    /\ disk' = store
    /\ last' = [op |-> op, person_id |-> person_id]
    /\ UNCHANGED <<cfg, blobs, id_counter, marker, keys, logs, recog, nframes,
                   tracker, repo, procs>>

BuildVectors ==
    \E order \in {<<"A", "B">>, <<"B", "A">>} :
        VectorStep(build_vectors(disk, procs.folders, order), "build_vectors", None)

UpdatePersonVectors ==
    \E person_id \in Names :
        /\ Len(disk.vectors) + Len(filtered_docs(disk, person_id, procs.folders))
              <= MaxStored
        /\ VectorStep(update_person_vectors(disk, person_id, procs.folders),
                      "update_person_vectors", person_id)

DeletePersonVectors ==
    \E person_id \in Names :
        VectorStep(delete_person_vectors(disk, person_id),
                   "delete_person_vectors", person_id)

\* an image is added to the folder of a person
UploadImage ==
    /\ \E person_id \in Names : \E image \in Images \ procs.folders[person_id] :
          procs' = [procs EXCEPT !.folders[person_id] = @ \cup {image}]
    /\ last' = [op |-> "upload_image"]
    /\ UNCHANGED <<cfg, blobs, id_counter, marker, keys, logs, disk, recog,
                   nframes, tracker, repo>>

NextVector ==
    BuildVectors \/ UpdatePersonVectors \/ DeletePersonVectors \/ UploadImage

SpecVector == InitVector /\ [][NextVector]_vars

-----------------------------------------------------------------------------
(* Claim on the ids of the store (SpecVector) *)

\* C37: after any sequence of build_vectors, update_person_vectors and
\* delete_person_vectors, the ids of the vectors of the store are distinct
\* and every vector maps to the document of the person it was extracted
\* from.
C37_IdsDistinctAndOwned ==
    disk.present =>
        /\ \A j, k \in 1..Len(disk.ids) : disk.ids[j] = disk.ids[k] => j = k
        /\ \A k \in 1..Len(disk.ids) :
              /\ disk.ids[k] \in DOMAIN disk.index_to_docstore_id
              /\ disk.index_to_docstore_id[disk.ids[k]].name = disk.vectors[k].name

-----------------------------------------------------------------------------
(* The single-shot server (src/base/server/app.py, vector_data.py):
   SpecSingleShot.  repo.index and repo.metadata are the index and meta of
   the VectorDatabaseManager held in vector_db_cache for the organize,
   repo.index_file and repo.metadata_file are index.faiss and meta.npy.  A
   person is a number and the vector of a face image is written as its
   person.  The handlers are coroutines without an await between their
   reads and writes of the cache, so each is one step. *)

\* the images of the faces directory, in the order iterdir gives
FaceDirs == UNION {[1..n -> 1..MaxMembers] : n \in 0..MaxFaceImages}

\* the entries saved by the embedding that preceded the start of the server
SavedEntries == {<<>>, <<1>>, <<1, 2>>}

\* VectorDatabaseManager.search with k = 1: faiss answers -1 on an empty
\* index and the result is skipped
vector_db_search(index, meta, q) ==
    IF Len(index) = 0 THEN <<>>
    ELSE LET idx == Nearest(index, q)
         IN  <<[person |-> meta[idx], vector |-> index[idx]]>>

\* the start of the server: the cache is loaded from the files, or the load
\* of the organize failed and the cache has no entry for it
InitSingleShot ==
    /\ cfg = DefaultCfg
    /\ blobs = <<>>
    /\ id_counter = 0
    /\ marker = TRUE
    /\ keys = {}
    /\ logs = NoLogs
    /\ disk = NoFile
    /\ recog = InitRecog
    /\ last = NoOp
    /\ nframes = 0
    /\ tracker = NoTracker
    /\ \E saved \in SavedEntries : \E cached \in BOOLEAN : \E faces \in FaceDirs :
          /\ repo = [index |-> IF cached THEN saved ELSE <<>>,
                     metadata |-> IF cached THEN saved ELSE <<>>,
                     index_file |-> saved, metadata_file |-> saved]
          /\ procs = [cached |-> cached, faces |-> faces, rebuilt |-> FALSE]

\* POST /organize/{name}/rebuild: a new VectorDatabaseManager is built from
\* the files, reset, filled with the embeddings of the faces directory and
\* saved; vector_db_cache is not touched
RebuildOrganizeVectors ==
    /\ repo' = [repo EXCEPT !.index_file = procs.faces,
                            !.metadata_file = procs.faces]
    /\ procs' = [procs EXCEPT !.rebuilt = TRUE]
    /\ last' = [op |-> "rebuild_organize_vectors"]
    /\ UNCHANGED <<cfg, blobs, id_counter, marker, keys, logs, disk, recog,
                   nframes, tracker>>

\* POST /upload with a face: the manager of the cache, loaded from the files
\* when the cache has none, answers the search
UploadImageSearch ==
    \E q \in 1..MaxMembers :
       LET vector_db == IF procs.cached
                        THEN [index |-> repo.index, meta |-> repo.metadata]
                        ELSE [index |-> repo.index_file, meta |-> repo.metadata_file]
       IN  /\ repo' = [repo EXCEPT !.index = vector_db.index,
                                   !.metadata = vector_db.meta]
           /\ procs' = [procs EXCEPT !.cached = TRUE]
           /\ last' = [op |-> "upload_image", q |-> q,
                       results |-> vector_db_search(vector_db.index, vector_db.meta, q)]
           /\ UNCHANGED <<cfg, blobs, id_counter, marker, keys, logs, disk, recog,
                          nframes, tracker>>

\* POST /organize/{name}/member/{person}/upload: one more image of a person
UploadMemberImage ==
    /\ Len(procs.faces) < MaxFaceImages
    /\ \E person \in 1..MaxMembers :
          procs' = [procs EXCEPT !.faces = Append(@, person)]
    /\ last' = [op |-> "upload_member_image"]
    /\ UNCHANGED <<cfg, blobs, id_counter, marker, keys, logs, disk, recog,
                   nframes, tracker, repo>>

NextSingleShot == RebuildOrganizeVectors \/ UploadImageSearch \/ UploadMemberImage

SpecSingleShot == InitSingleShot /\ [][NextSingleShot]_vars

-----------------------------------------------------------------------------
(* Claim on the cache of the single-shot server (SpecSingleShot) *)

\* C38: once a rebuild of the organize has returned, every later /upload
\* search of the organize answers from the rebuilt index, the one saved in
\* the files, and not from the entries the cache held before the rebuild.
C38_UploadUsesRebuiltIndex ==
    [][(last'.op = "upload_image" /\ procs.rebuilt) =>
          last'.results =
              vector_db_search(repo.index_file, repo.metadata_file, last'.q)]_vars

-----------------------------------------------------------------------------
(* Claim on the length of the history (SpecTracker) *)

\* C39: the history of a DetectionTracker never holds more than window_size
\* entries, and right after a get_confirmed_person call it holds fewer than
\* window_size entries, after any order of add_detection,
\* get_confirmed_person and reset calls.
C39_HistoryBounded ==
    /\ Len(tracker.history) <= tracker.window_size
    /\ last.op = "get_confirmed_person" =>
           Len(tracker.history) < tracker.window_size

\* a full window that had dropped an older addition and confirms nobody has
\* just been cleared by the query
C39_Witness ==
    /\ last.op = "get_confirmed_person"
    /\ last.result = None
    /\ Len(last.added) > tracker.window_size
    /\ Len(last.history) = tracker.window_size
    /\ last.history[1] # None
    /\ tracker.history = <<>>

-----------------------------------------------------------------------------
(* WebsocketService.websocket_connection for several connections:
   SpecConnections.  _active_connections and _latest_frame are dictionaries
   of the class, shared by the WebsocketService objects of all connections
   and keyed by admin, camera and session.  A websocket is written as the
   number of its connection, a frame as the pair of its connection and its
   number.  The code between two awaits of a connection is one step. *)

ConnectionKeys == {"a-c-s1", "a-c-s2"}

Connections == 1..MaxConnections

\* d[key] = value
DictSet(d, key, value) ==
    [k \in DOMAIN d \cup {key} |-> IF k = key THEN value ELSE d[k]]

\* del d[key]
DictDel(d, key) == [k \in DOMAIN d \ {key} |-> d[k]]

InitConnections ==
    /\ cfg = DefaultCfg
    /\ blobs = <<>>
    /\ id_counter = 0
    /\ marker = TRUE
    /\ keys = {}
    /\ logs = NoLogs
    /\ disk = NoFile
    /\ recog = InitRecog
    /\ last = NoOp
    /\ nframes = 0
    /\ tracker = NoTracker
    /\ repo = NoRepo
    /\ \E connection_key \in [Connections -> ConnectionKeys] :
          procs = [conn |-> [c \in Connections |->
                               [pc |-> "idle", key |-> connection_key[c],
                                received |-> 0, data_to_process |-> <<>>]],
                   _active_connections |-> EmptyMap,
                   _latest_frame |-> EmptyMap]

ConnectionStep(procs2, op, c) ==
    /\ procs' = procs2
    /\ last' = [op |-> op, connection |-> c]
    /\ UNCHANGED <<cfg, blobs, id_counter, marker, keys, logs, disk, recog,
                   nframes, tracker, repo>>

\* the frame loop of the connection is running
Live(c) == procs.conn[c].pc \in {"receive", "process"}

\* websocket_connection up to wait_for:
\* _active_connections[connection_key] = websocket
RegisterConnection ==
    \E c \in Connections :
       /\ procs.conn[c].pc = "idle"
       /\ ConnectionStep([procs EXCEPT
                            !._active_connections =
                                DictSet(@, procs.conn[c].key, c),
                            !.conn[c].pc = "receive"],
                         "websocket_connection", c)

\* data = await websocket.receive_bytes(); _latest_frame[connection_key] = data
ReceiveLatest ==
    \E c \in Connections :
       /\ procs.conn[c].pc = "receive"
       /\ procs.conn[c].received < MaxReceived
       /\ ConnectionStep([procs EXCEPT
                            !._latest_frame =
                                DictSet(@, procs.conn[c].key,
                                        <<c, procs.conn[c].received + 1>>),
                            !.conn[c].received = @ + 1,
                            !.conn[c].pc = "process"],
                         "receive_bytes", c)

\* asyncio.TimeoutError of receive_bytes: pass
ReceivePass ==
    \E c \in Connections :
       /\ procs.conn[c].pc = "receive"
       /\ ConnectionStep([procs EXCEPT !.conn[c].pc = "process"],
                         "receive_timeout", c)

\* if connection_key in _latest_frame: data_to_process = _latest_frame[key],
\* the frame is processed and the loop sleeps
ProcessLatest ==
    \E c \in Connections :
       /\ procs.conn[c].pc = "process"
       /\ ConnectionStep([procs EXCEPT
                            !.conn[c].data_to_process =
                                IF procs.conn[c].key \in DOMAIN procs._latest_frame
                                THEN procs._latest_frame[procs.conn[c].key]
                                ELSE @,
                            !.conn[c].pc = "receive"],
                         "_process_and_send_frame", c)

\* the loop ends by a disconnect, an error or the timeout of the session,
\* and the finally block deletes the entries of connection_key
ConnectionReturns ==
    \E c \in Connections :
       /\ Live(c)
       /\ ConnectionStep([procs EXCEPT
                            !._active_connections = DictDel(@, procs.conn[c].key),
                            !._latest_frame = DictDel(@, procs.conn[c].key),
                            !.conn[c].pc = "closed"],
                         "finally", c)

NextConnections ==
    \/ RegisterConnection \/ ReceiveLatest \/ ReceivePass
    \/ ProcessLatest \/ ConnectionReturns

SpecConnections == InitConnections /\ [][NextConnections]_vars

-----------------------------------------------------------------------------
(* Claim on the registry of connections (SpecConnections) *)

\* the key of connection c is registered with the websocket of c
Registered(c) ==
    /\ procs.conn[c].key \in DOMAIN procs._active_connections
    /\ procs._active_connections[procs.conn[c].key] = c

\* C40: while the frame loop of a connection runs, its key is registered in
\* _active_connections with its own websocket; the teardown of a connection
\* leaves the latest frame of every other live connection in place, also
\* between connections with the same key; and once websocket_connection has
\* returned, the registration and the latest frame of the connection are
\* gone.
C40_RegistryPerConnection ==
    /\ [](\A c \in Connections :
            /\ Live(c) => Registered(c)
            /\ procs.conn[c].pc = "closed" =>
                  /\ ~Registered(c)
                  /\ procs.conn[c].key \in DOMAIN procs._latest_frame =>
                        procs._latest_frame[procs.conn[c].key][1] # c)
    /\ [][\A c, d \in Connections :
            (/\ c # d
             /\ Live(c)
             /\ procs'.conn[c].pc = "closed"
             /\ Live(d)
             /\ procs.conn[d].key \in DOMAIN procs._latest_frame) =>
                /\ procs.conn[d].key \in DOMAIN procs'._latest_frame
                /\ procs'._latest_frame[procs.conn[d].key] =
                       procs._latest_frame[procs.conn[d].key]]_vars

====
